---- MODULE Spec2Model ----
(***************************************************************************)
(* GoSpeak server: channel membership manager, session manager, token      *)
(* validation, the UDP voice forwarding loop, the control-plane handlers   *)
(* with their server-state broadcasts, and the client's voice nonce.       *)
(***************************************************************************)
EXTENDS Naturals, Integers, FiniteSets, Sequences, TLC

\* ---------------------------------------------------------------- bounds
MaxSess == 3
MaxChan == 2
MaxTask == 2
MaxValidators == 3
MaxUses == 2
MaxTime == 1
MaxVoiceSess == 2
MaxCtlSess == 2
MaxClients == 2
MaxSessionID == 2
MaxSeq == 2
\* Commits to the database while one read snapshot is open.
MaxDbVer == 3
MaxBans == 2
MaxBanTargets == 1
\* Requests a client sends on one connection.
MaxReq == 2
\* Privileged requests a client sends on one connection.
MaxAdmReq == 1
MaxAuthConn == 1
MaxBanTime == 1
MaxTokRows == 1
MaxImport == 1
MaxJbSeq == 2
MaxPermLen == 3
MaxRunLen == 17
MaxLoginConn == 2
MaxMaxUsers == 1
MaxWriters == 2
MaxFrames == 5
MaxTextRuns == 2
\* Runs of equal characters in a channel name.
MaxNameRuns == 1
MaxRunConn == 1
MaxRunReq == 2

\* The AEAD nonce length in bytes (aead.NonceSize()).
NonceSize == 12

SessIds == 1..MaxSess
ChanIds == 1..MaxChan
Tasks == 1..MaxTask
Validators == 1..MaxValidators
VoiceSids == 1..MaxVoiceSess
CtlSids == 1..MaxCtlSess
AuthConns == 1..MaxAuthConn
LoginConns == 1..MaxLoginConn
RunConns == 1..MaxRunConn
Clients == 1..MaxClients
SessionIDs == 1..MaxSessionID

\* model.Role
RoleUser == 0
RoleModerator == 1
RoleAdmin == 2
Roles == {RoleUser, RoleModerator, RoleAdmin}

\* UDP source addresses (ip, port); NilAddr is a nil *net.UDPAddr.
NilAddr == [ip |-> "nil", port |-> "nil"]
Addrs == {[ip |-> "A", port |-> "p"], [ip |-> "A", port |-> "q"], [ip |-> "B", port |-> "p"]}

\* The local address of the UDP socket of the client that authenticated
\* session s: every client dials its own socket, the one of session 1 on
\* host A, the others on host B.  Datagrams from any other address come
\* from somebody else.
ClientAddr(s) == IF s = 1 THEN [ip |-> "A", port |-> "p"] ELSE [ip |-> "B", port |-> "p"]

VARIABLES
    members,            \* ChannelManager.members: channel -> set of session ids
    sessionToChannel,   \* ChannelManager.sessionToChannel: session -> channel, 0 = no key
    cmMu,               \* ChannelManager.mu: 0 = free, t = write-locked by task t
    cmTask,             \* per task: position inside Join / Leave
    tokBackend,         \* "sql" (datastore transaction) or "mem" (MemoryStore)
    tokMax,             \* tokens.max_uses, 0 = unlimited
    tokExp,             \* tokens.expires_at, 0 = never
    tokUse,             \* tokens.use_count as committed
    now,                \* the clock
    dbVer,              \* number of commits to the database (WAL snapshot id)
    dbWriter,           \* holder of the database write lock, 0 = none
    val,                \* per validation: position, read snapshot, result
    sessLive,           \* SessionManager.sessions: the ids that have an entry
    sessUDP,            \* Session.UDPAddr per id, NilAddr = nil
    sessMuted,          \* Session.Muted per id
    sessDeaf,           \* Session.Deafened per id
    vl,                 \* the voice loop: position, packet, snapshots
    vc,                 \* per client: its VoiceClient (sessionID, seqNum)
    sealed,             \* nonces some packet was encrypted with under the voice key
    resealed,           \* nonces more than one packet was encrypted with
    ctl,                \* per control connection: position of its handler
    connMap,            \* ControlHandler.connMap: sessions with a registered conn
    sessChannel,        \* Session.ChannelID per id
    chanRows,           \* channels table: "none", "perm" or "temp" per id
    chanSeq,            \* channels AUTOINCREMENT: the last id handed out
    chanMax,            \* channels.max_users per id (0 = unlimited, and for no row)
    timers,             \* the temp-channel cleanup goroutines
    lastState,          \* per client: the last ServerStateEvent it received
    authImpl,           \* which handshake the server runs: "username" or "personal"
    allowNoToken,       \* cfg.AllowNoToken
    tokRole,            \* tokens.role of the invite token
    users,              \* users table: per username its row (id 0 = no row)
    userSeq,            \* users AUTOINCREMENT: the last id handed out
    autoTok,            \* user ids whose auto-generated token is a tokens row
    bans,               \* bans table: rows (uid, exp), exp 0 = NULL
    sessUser,           \* Session.UserID per session id
    sessRole,           \* Session.Role per session id
    auth,               \* per control connection: its handshake and what came of it
    closedConns,        \* sessions whose conn a kick or ban has closed
    tokCount,           \* tokens rows stored by handleCreateToken, per role
    reply,              \* the last privileged request and how it was answered
    jb,                 \* a speaker's JitterBuffer: frames, nextSeq, ready
    jbLast,             \* what the last Pop returned
    jbPrev,             \* the number the last successful Pop returned, -1 = none
    jbReturned,         \* the numbers successful Pops have returned
    jbPushed,           \* the numbers that were pushed
    jbInOrder,          \* every successful Pop returned the successor of the one before
    jbPlan,             \* the numbers still to push, of the range k..k+n
    jbOut,               \* what the Pops after the planned pushes returned
    wire,               \* the chunks written to one control connection, in order
    wpc,                \* per writing task: the frame whose payload it has yet to write
    wseq,                \* the number of frames begun so far
    chat,                \* handleChatMessage of one connection: position, text measures, recipients
    run,                 \* the server's tasks around Shutdown: main, loops, connections, cleanup timers, the store
    vad                 \* the engine's VAD and what Process last returned

cmVars == <<members, sessionToChannel, cmMu, cmTask>>
tokVars == <<tokBackend, tokMax, tokExp, tokUse, now, dbVer, dbWriter, val>>

sessVars == <<sessLive, sessUDP, sessMuted, sessDeaf>>
chanMaps == <<members, sessionToChannel>>
nonceVars == <<vc, sealed, resealed>>
ctlVars == <<ctl, connMap, sessChannel, chanRows, chanSeq, chanMax, timers, lastState>>
authVars == <<authImpl, allowNoToken, tokRole, users, userSeq, autoTok, bans,
              sessUser, sessRole, auth>>
admVars == <<closedConns, tokCount, reply>>
jbVars == <<jb, jbLast, jbPrev, jbReturned, jbPushed, jbInOrder, jbPlan, jbOut>>
wireVars == <<wire, wpc, wseq>>
vadVars == <<vad>>
runVars == <<run>>
chatVars == <<chat>>
notCM == <<tokVars, sessVars, vl, nonceVars, ctlVars, authVars, admVars, jbVars, wireVars, chatVars, runVars, vadVars>>
notTok == <<cmVars, sessVars, vl, nonceVars, ctlVars, authVars, admVars, jbVars, wireVars, chatVars, runVars, vadVars>>
notVoice == <<cmMu, cmTask, tokVars, nonceVars, ctlVars, authVars, admVars, jbVars, wireVars, chatVars, runVars, vadVars>>
notNonce == <<cmVars, tokVars, sessUDP, sessMuted, sessDeaf, vl, ctlVars, authVars, admVars, jbVars, wireVars, chatVars, runVars, vadVars>>
notAuth == <<cmVars, tokBackend, tokMax, tokExp,
             sessUDP, sessMuted, sessDeaf, vl, nonceVars,
             ctl, sessChannel, chanRows, chanSeq, chanMax, timers, lastState, admVars, jbVars, wireVars, chatVars, runVars, vadVars>>
notAuthConn == <<cmVars, tokBackend, tokMax, tokExp,
                 sessUDP, sessMuted, sessDeaf, vl, nonceVars,
                 sessChannel, chanRows, chanSeq, chanMax, timers, lastState, tokCount, reply,
                 jbVars, wireVars, chatVars, runVars, vadVars>>
notJb == <<cmVars, tokVars, sessVars, vl, nonceVars, ctlVars, authVars, admVars, wireVars, chatVars, runVars, vadVars>>
notWire == <<cmVars, tokVars, sessVars, vl, nonceVars, ctlVars, authVars, admVars, jbVars, chatVars, runVars, vadVars>>
notChat == <<cmVars, tokVars, sessVars, vl, nonceVars, ctlVars, authVars, admVars, jbVars, wireVars, runVars, vadVars>>
notRun == <<cmVars, tokVars, sessVars, vl, nonceVars, ctlVars, authVars, admVars, jbVars, wireVars, chatVars, vadVars>>
notVad == <<cmVars, tokVars, sessVars, vl, nonceVars, ctlVars, authVars, admVars, jbVars, wireVars, chatVars, runVars>>

vars == <<members, sessionToChannel, cmMu, cmTask,
          tokBackend, tokMax, tokExp, tokUse, now, dbVer, dbWriter, val,
          sessLive, sessUDP, sessMuted, sessDeaf, vl,
          vc, sealed, resealed,
          ctl, connMap, sessChannel, chanRows, chanSeq, chanMax, timers, lastState,
          authImpl, allowNoToken, tokRole, users, userSeq, autoTok, bans,
          sessUser, sessRole, auth,
          closedConns, tokCount, reply,
          jb, jbLast, jbPrev, jbReturned, jbPushed, jbInOrder, jbPlan, jbOut,
          wire, wpc, wseq, chat, run, vad>>

\* ------------------------------------------------- channel manager (pure)

\* Members(c): the member set of a channel (empty when the key is absent).
Members(m, c) == m[c]

\* ChannelOf(s): the channel of a session, 0 when it has none.
ChannelOf(s2c, s) == s2c[s]

\* MembersCount(c)
MembersCount(m, c) == Cardinality(m[c])

\* Join, first half: remove the session from its current channel, if any.
JoinRemovedKept(m, s2c, s) == m
JoinRemoved(m, s2c, s) ==
    IF s2c[s] # 0 THEN [m EXCEPT ![s2c[s]] = @ \ {s}] ELSE m

\* Join, second half: insert the session into the new channel.
JoinAdded(m, s, c) == [m EXCEPT ![c] = @ \cup {s}]

\* Join(s, c) as one critical section: the new pair of maps.
JoinMembers(m, s2c, s, c) == JoinAdded(JoinRemoved(m, s2c, s), s, c)
JoinS2C(s2c, s, c) == [s2c EXCEPT ![s] = c]

\* Leave, second half: delete the session from the member set of prev.
LeaveDeletedKept(m, prev, s) == m
LeaveDeleted(m, prev, s) == [m EXCEPT ![prev] = @ \ {s}]

\* Leave(s) as one critical section.
LeaveMembers(m, s2c, s) ==
    IF s2c[s] # 0 THEN LeaveDeleted(m, s2c[s], s) ELSE m
LeaveS2C(s2c, s) == [s2c EXCEPT ![s] = 0]

\* ---------------------------------------- channel manager, lock by lock
IdleTask == [pc |-> "idle", s |-> 0, c |-> 0, prev |-> 0]

InitCM ==
    /\ members = [c \in ChanIds |-> {}]
    /\ sessionToChannel = [s \in SessIds |-> 0]
    /\ cmMu = 0
    /\ cmTask = [t \in Tasks |-> IdleTask]

\* Join: cm.mu.Lock(), then the removal from the current channel.
CMJoinBegin(t, s, c) ==
    /\ UNCHANGED notCM
    /\ cmTask[t].pc = "idle"
    /\ cmMu = 0
    /\ cmMu' = t
    /\ members' = JoinRemoved(members, sessionToChannel, s)
    /\ cmTask' = [cmTask EXCEPT ![t] =
                    [pc |-> "join_add", s |-> s, c |-> c, prev |-> sessionToChannel[s]]]
    /\ UNCHANGED sessionToChannel

\* Join: the insertion into the new channel, then the deferred Unlock.
CMJoinEnd(t) ==
    /\ UNCHANGED notCM
    /\ cmTask[t].pc = "join_add"
    /\ cmMu = t
    /\ members' = JoinAdded(members, cmTask[t].s, cmTask[t].c)
    /\ sessionToChannel' = JoinS2C(sessionToChannel, cmTask[t].s, cmTask[t].c)
    /\ cmMu' = 0
    /\ cmTask' = [cmTask EXCEPT ![t] = IdleTask]

\* Leave: cm.mu.Lock(); a session with no channel returns 0 at once,
\* otherwise the reverse entry is deleted first.
CMLeaveBegin(t, s) ==
    /\ UNCHANGED notCM
    /\ cmTask[t].pc = "idle"
    /\ cmMu = 0
    /\ IF sessionToChannel[s] = 0
       THEN UNCHANGED <<members, sessionToChannel, cmMu, cmTask>>
       ELSE /\ cmMu' = t
            /\ sessionToChannel' = LeaveS2C(sessionToChannel, s)
            /\ cmTask' = [cmTask EXCEPT ![t] =
                    [pc |-> "leave_del", s |-> s, c |-> 0, prev |-> sessionToChannel[s]]]
            /\ UNCHANGED members

\* Leave: the deletion from the member set, then the deferred Unlock.
CMLeaveEnd(t) ==
    /\ UNCHANGED notCM
    /\ cmTask[t].pc = "leave_del"
    /\ cmMu = t
    /\ members' = LeaveDeleted(members, cmTask[t].prev, cmTask[t].s)
    /\ cmMu' = 0
    /\ cmTask' = [cmTask EXCEPT ![t] = IdleTask]
    /\ UNCHANGED sessionToChannel

\* ------------------------------------------------------ token validation

\* The checks of ValidateToken on the row it read, in the code's order:
\* no row, expired, exhausted; "ok" when the use may be taken.
TokenCheckOffByOne(found, maxUses, useCount, expiresAt, t) ==
    IF ~found THEN "invalid"
    ELSE IF expiresAt # 0 /\ t > expiresAt THEN "expired"
    ELSE IF maxUses > 0 /\ useCount > maxUses THEN "exhausted"
    ELSE "ok"
TokenCheck(found, maxUses, useCount, expiresAt, t) ==
    IF ~found THEN "invalid"
    ELSE IF expiresAt # 0 /\ t > expiresAt THEN "expired"
    ELSE IF maxUses > 0 /\ useCount >= maxUses THEN "exhausted"
    ELSE "ok"

\* use_count + 1 written twice.
IncrementedTwice(useCount) == useCount + 2

\* token.useCount++ and SET use_count = use_count + 1.
Incremented(useCount) == useCount + 1

\* row: the tokens row the hash selects, the invite token's unless said
\* otherwise.
IdleVal ==
    [pc |-> "idle", known |-> TRUE, row |-> "invite", snapUse |-> 0, snapVer |-> 0,
     res |-> "none"]

FixedTok ==
    /\ tokBackend = "sql" /\ tokMax = 0 /\ tokExp = 0 /\ tokUse = 0 /\ now = 0
    /\ dbVer = 0 /\ dbWriter = 0
    /\ val = [v \in Validators |-> IdleVal]

\* CreateToken: use_count 0, any max_uses and expiry; either store.
InitTok ==
    /\ tokBackend \in {"sql", "mem"}
    /\ tokMax \in 0..MaxUses
    /\ tokExp \in 0..MaxTime
    /\ tokUse = 0 /\ now = 0 /\ dbVer = 0 /\ dbWriter = 0
    /\ val = [v \in Validators |-> IdleVal]

\* The clock advances (MaxTime + 1 is past every expiry a token can have).
Tick ==
    /\ UNCHANGED notTok
    /\ now <= MaxTime
    /\ now' = now + 1
    /\ UNCHANGED <<tokBackend, tokMax, tokExp, tokUse, dbVer, dbWriter, val>>

\* The commit counter after a commit.  It is compared only with the
\* snapshot of a transaction between its SELECT and its UPDATE, so it
\* advances only while one is open.
Committed == IF \E v \in Validators : val[v].pc = "update" THEN dbVer + 1 ELSE dbVer

\* MemoryStore.ValidateToken: check and increment under the store's mutex.
MemValidateToken(v, known) ==
    /\ UNCHANGED notTok
    /\ tokBackend = "mem"
    /\ val[v].pc = "idle"
    /\ LET r == TokenCheck(known, tokMax, tokUse, tokExp, now) IN
        /\ tokUse' = IF r = "ok" THEN Incremented(tokUse) ELSE tokUse
        /\ val' = [val EXCEPT ![v] = [@ EXCEPT !.pc = "done", !.known = known, !.res = r]]
    /\ UNCHANGED <<tokBackend, tokMax, tokExp, now, dbVer, dbWriter>>

\* ProviderFactory.Tx: BeginTx with default options, a deferred transaction
\* on its own pooled connection; it takes no lock yet.
SqlTx(v, known) ==
    /\ UNCHANGED notTok
    /\ tokBackend = "sql"
    /\ val[v].pc = "idle"
    /\ val' = [val EXCEPT ![v] = [@ EXCEPT !.pc = "select", !.known = known]]
    /\ UNCHANGED <<tokBackend, tokMax, tokExp, tokUse, now, dbVer, dbWriter>>

\* txProvider.ValidateToken: the SELECT opens the read snapshot; then the
\* expiry and use checks on the row read; a failed check returns (the
\* deferred Rollback ends the read transaction).
SqlSelect(v) ==
    /\ UNCHANGED notTok
    /\ val[v].pc = "select"
    /\ LET r == IF val[v].row = "auto"
                THEN TokenCheck(val[v].known, 0, 0, 0, now)
                ELSE TokenCheck(val[v].known, tokMax, tokUse, tokExp, now) IN
        val' = [val EXCEPT ![v] =
                  IF r = "ok"
                  THEN [@ EXCEPT !.pc = "update", !.snapUse = tokUse, !.snapVer = dbVer]
                  ELSE [@ EXCEPT !.pc = "done", !.res = r]]
    /\ UNCHANGED <<tokBackend, tokMax, tokExp, tokUse, now, dbVer, dbWriter>>

\* txProvider.ValidateToken: the UPDATE upgrades the read transaction to a
\* write transaction. In WAL mode the upgrade fails (busy) when another
\* connection committed since the snapshot or holds the write lock; the
\* error is returned as "increment use".
SqlUpdate(v) ==
    /\ UNCHANGED notTok
    /\ val[v].pc = "update"
    /\ IF dbVer # val[v].snapVer \/ dbWriter # 0
       THEN /\ val' = [val EXCEPT ![v] = [@ EXCEPT !.pc = "done", !.res = "busy"]]
            /\ UNCHANGED dbWriter
       ELSE /\ val' = [val EXCEPT ![v] = [@ EXCEPT !.pc = "commit"]]
            /\ dbWriter' = v
    /\ UNCHANGED <<tokBackend, tokMax, tokExp, tokUse, now, dbVer>>

\* txProvider.ValidateToken: Commit publishes use_count + 1 and releases
\* the write lock.
SqlCommit(v) ==
    /\ UNCHANGED notTok
    /\ val[v].pc = "commit"
    /\ dbWriter = v
    /\ dbVer < MaxDbVer
    /\ tokUse' = IF val[v].row = "auto" THEN tokUse ELSE Incremented(val[v].snapUse)
    /\ dbVer' = Committed
    /\ dbWriter' = 0
    /\ val' = [val EXCEPT ![v] = [@ EXCEPT !.pc = "done", !.res = "ok"]]
    /\ UNCHANGED <<tokBackend, tokMax, tokExp, now>>

NextTok ==
    \/ Tick
    \/ \E v \in Validators, known \in BOOLEAN : MemValidateToken(v, known)
    \/ \E v \in Validators, known \in BOOLEAN : SqlTx(v, known)
    \/ \E v \in Validators : SqlSelect(v)
    \/ \E v \in Validators : SqlUpdate(v)
    \/ \E v \in Validators : SqlCommit(v)


\* ------------------------------------------------------- session manager

\* NewSessionManager: no sessions.
InitSess ==
    /\ sessLive = {}
    /\ sessUDP = [s \in SessIds |-> NilAddr]
    /\ sessMuted = [s \in SessIds |-> FALSE]
    /\ sessDeaf = [s \in SessIds |-> FALSE]

\* ------------------------------------------------------------ voice loop

\* voiceLoop's source check on the sender's snapshot: a pinned address must
\* equal the packet's source in IP and in port.
SourceMatchesIPOnly(pinned, src) == pinned.ip = src.ip
SourceMatches(pinned, src) == pinned.ip = src.ip /\ pinned.port = src.port

\* voiceLoop's channel check: the sender is in a channel and it is the one
\* the header claims.
ChannelClaimOKAnyChannel(actual, claimed) == actual # 0
ChannelClaimOK(actual, claimed) == actual # 0 /\ actual = claimed

\* voiceLoop's mute check on the sender's snapshot: TRUE = forward.
MuteCheckIgnored(muted) == TRUE
MuteCheck(muted) == ~muted

\* voiceLoop's per-member test on the member's snapshot: TRUE = write to it.
RecipientOKDeafIgnored(ok, udp, deafened) == ok /\ udp # NilAddr
RecipientOK(ok, udp, deafened) == ok /\ udp # NilAddr /\ ~deafened

VoiceIdle ==
    [pc |-> "recv", sid |-> 0, ch |-> 0, src |-> NilAddr,
     snapUDP |-> NilAddr, snapMuted |-> FALSE, stale |-> FALSE,
     actual |-> 0, memSnap |-> {}, todo |-> {}, failed |-> {},
     cur |-> 0, curUDP |-> NilAddr, curDeaf |-> FALSE, drop |-> "none"]

\* The loop's `continue` after a drop: back at the loop head, the reason kept.
VoiceDropped(reason) == [VoiceIdle EXCEPT !.drop = reason]

InitVoiceLoop == vl = VoiceIdle

\* ReadFromUDP, UnmarshalVoicePacket, GetSnapshot of the sender; then the
\* checks that read only the snapshot: source mismatch, and, when the
\* address was already pinned, the mute check.
VoiceRecv(sid, ch, src) ==
    /\ UNCHANGED notVoice
    /\ vl.pc = "recv"
    /\ IF sid \notin sessLive
       THEN vl' = VoiceDropped("unknown")
       ELSE LET got == [VoiceIdle EXCEPT !.sid = sid, !.ch = ch, !.src = src,
                            !.snapUDP = sessUDP[sid], !.snapMuted = sessMuted[sid]] IN
            IF sessUDP[sid] = NilAddr
            THEN vl' = [got EXCEPT !.pc = "pin"]
            ELSE IF ~SourceMatches(sessUDP[sid], src) THEN vl' = VoiceDropped("source")
            ELSE IF ~MuteCheck(sessMuted[sid]) THEN vl' = VoiceDropped("muted")
            ELSE vl' = [got EXCEPT !.pc = "chk"]
    /\ UNCHANGED <<chanMaps, sessVars>>

\* SetUDPAddr for a session whose snapshot had no address; then the mute
\* check on the snapshot.
VoicePin ==
    /\ UNCHANGED notVoice
    /\ vl.pc = "pin"
    /\ sessUDP' = IF vl.sid \in sessLive
                  THEN [sessUDP EXCEPT ![vl.sid] = vl.src] ELSE sessUDP
    /\ vl' = IF MuteCheck(vl.snapMuted) THEN [vl EXCEPT !.pc = "chk"]
             ELSE VoiceDropped("muted")
    /\ UNCHANGED <<chanMaps, sessLive, sessMuted, sessDeaf>>

\* ChannelOf(sender) compared with the header's channel id.
VoiceChannelOf ==
    /\ UNCHANGED notVoice
    /\ vl.pc = "chk"
    /\ LET actual == ChannelOf(sessionToChannel, vl.sid) IN
       vl' = IF ChannelClaimOK(actual, vl.ch)
             THEN [vl EXCEPT !.pc = "members", !.actual = actual]
             ELSE VoiceDropped("channel")
    /\ UNCHANGED <<chanMaps, sessVars>>

\* Members(channelID): the snapshot the fan-out iterates; the sender itself
\* is skipped.
VoiceMembers ==
    /\ UNCHANGED notVoice
    /\ vl.pc = "members"
    /\ LET snap == Members(members, vl.actual) IN
       vl' = IF snap \ {vl.sid} = {}
             THEN VoiceIdle
             ELSE [vl EXCEPT !.pc = "fan", !.memSnap = snap, !.todo = snap \ {vl.sid}]
    /\ UNCHANGED <<chanMaps, sessVars>>

\* A loop that stops at the first failed write.
AfterWriteAbort(todo, m, err) == IF err THEN {} ELSE todo \ {m}

\* The recipients a fan-out loop still has to visit after member m: a write
\* error is logged and the loop goes on with the next member.
AfterWrite(todo, m, err) == todo \ {m}

\* The position after member m has been handled; err: its write failed.
VoiceAfter(v, m, err) ==
    IF AfterWrite(v.todo, m, err) = {} THEN VoiceIdle
    ELSE [v EXCEPT !.pc = "fan", !.todo = AfterWrite(@, m, err),
                   !.failed = IF err THEN @ \cup {m} ELSE @,
                   !.cur = 0, !.curUDP = NilAddr, !.curDeaf = FALSE]

\* GetSnapshot of the next member (map order: any); a member without a
\* session, without an address or deafened is skipped.
VoiceMemberSnapshot(m) ==
    /\ UNCHANGED notVoice
    /\ vl.pc = "fan"
    /\ m \in vl.todo
    /\ vl' = IF RecipientOK(m \in sessLive, sessUDP[m], sessDeaf[m])
             THEN [vl EXCEPT !.pc = "write", !.cur = m,
                             !.curUDP = sessUDP[m], !.curDeaf = sessDeaf[m]]
             ELSE VoiceAfter(vl, m, FALSE)
    /\ UNCHANGED <<chanMaps, sessVars>>

\* WriteToUDP of the raw packet to the member's snapshot address; err: the
\* write returned an error.
VoiceWrite(err) ==
    /\ UNCHANGED notVoice
    /\ vl.pc = "write"
    /\ vl' = VoiceAfter(vl, vl.cur, err)
    /\ UNCHANGED <<chanMaps, sessVars>>

\* ------------------- manager calls that run beside the voice loop

\* SessionManager.Create: a fresh id that no live session has.
Create(s) ==
    /\ UNCHANGED notVoice
    /\ s \notin sessLive
    /\ sessLive' = sessLive \cup {s}
    /\ UNCHANGED <<chanMaps, sessUDP, sessMuted, sessDeaf, vl>>

\* SessionManager.Remove, called by the disconnect cleanup after Leave.
Remove(s) ==
    /\ UNCHANGED notVoice
    /\ s \in sessLive
    /\ sessionToChannel[s] = 0
    /\ sessLive' = sessLive \ {s}
    /\ sessUDP' = [sessUDP EXCEPT ![s] = NilAddr]
    /\ sessMuted' = [sessMuted EXCEPT ![s] = FALSE]
    /\ sessDeaf' = [sessDeaf EXCEPT ![s] = FALSE]
    /\ vl' = IF vl.pc # "recv" /\ vl.sid = s THEN [vl EXCEPT !.stale = TRUE] ELSE vl
    /\ UNCHANGED chanMaps

\* ChannelManager.Join for a live session.
Join(s, c) ==
    /\ UNCHANGED notVoice
    /\ s \in sessLive
    /\ members' = JoinMembers(members, sessionToChannel, s, c)
    /\ sessionToChannel' = JoinS2C(sessionToChannel, s, c)
    /\ UNCHANGED <<sessVars, vl>>

\* ChannelManager.Leave.
Leave(s) ==
    /\ UNCHANGED notVoice
    /\ sessionToChannel[s] # 0
    /\ members' = LeaveMembers(members, sessionToChannel, s)
    /\ sessionToChannel' = LeaveS2C(sessionToChannel, s)
    /\ UNCHANGED <<sessVars, vl>>

\* SessionManager.UpdateUserState.
UpdateUserState(s, muted, deafened) ==
    /\ UNCHANGED notVoice
    /\ s \in sessLive
    /\ sessMuted' = [sessMuted EXCEPT ![s] = muted]
    /\ sessDeaf' = [sessDeaf EXCEPT ![s] = deafened]
    /\ UNCHANGED <<chanMaps, sessLive, sessUDP, vl>>

NextVoice ==
    \/ \E sid \in VoiceSids, ch \in 0..MaxChan, src \in Addrs : VoiceRecv(sid, ch, src)
    \/ VoicePin
    \/ VoiceChannelOf
    \/ VoiceMembers
    \/ \E m \in VoiceSids : VoiceMemberSnapshot(m)
    \/ \E err \in BOOLEAN : VoiceWrite(err)
    \/ \E s \in VoiceSids : Create(s)
    \/ \E s \in VoiceSids : Remove(s)
    \/ \E s \in VoiceSids, c \in ChanIds : Join(s, c)
    \/ \E s \in VoiceSids : Leave(s)
    \/ \E s \in VoiceSids, m \in BOOLEAN, d \in BOOLEAN : UpdateUserState(s, m, d)

\* ------------------------------------------- voice nonce (client side)

\* binary.BigEndian.PutUint32: the four bytes of x, most significant first.
PutUint32(x) ==
    <<(x \div 16777216) % 256, (x \div 65536) % 256, (x \div 256) % 256, x % 256>>

\* buildNonce: [sessionID(4) | seqNum(4) | zeros(N-8)].
buildNonce(sessionID, seqNum, nonceSize) ==
    PutUint32(sessionID) \o PutUint32(seqNum) \o [i \in 1..(nonceSize - 8) |-> 0]

\* A client and its connection: srv is the id of the session the server
\* holds for the connection (0 = none), resp the session id of an
\* AuthResponse the client has not used yet (0 = none); sessionID and seqNum
\* are the fields of the client's VoiceClient (sessionID 0 = none was
\* built), on says that its UDP socket is open.
NoClient == [srv |-> 0, resp |-> 0, on |-> FALSE, sessionID |-> 0, seqNum |-> 0]

InitNonce ==
    /\ vc = [k \in Clients |-> NoClient]
    /\ sealed = {}
    /\ resealed = {}

\* The server's side of a successful login: SessionManager.Create draws a
\* random non-zero id that no session in the map has; the id leaves in the
\* AuthResponse.
Login(k, id) ==
    /\ UNCHANGED notNonce
    /\ vc[k].srv = 0 /\ vc[k].resp = 0 /\ ~vc[k].on
    /\ id # 0 /\ id \notin sessLive
    /\ sessLive' = sessLive \cup {id}
    /\ vc' = [vc EXCEPT ![k].srv = id, ![k].resp = id]
    /\ UNCHANGED <<sealed, resealed>>

\* The client's side: Engine.Connect builds its VoiceClient from the id in
\* the AuthResponse, seqNum zero.
NewVoiceClient(k) ==
    /\ UNCHANGED notNonce
    /\ vc[k].resp # 0
    /\ vc' = [vc EXCEPT ![k].resp = 0, ![k].on = TRUE,
                        ![k].sessionID = vc[k].resp, ![k].seqNum = 0]
    /\ UNCHANGED <<sessLive, sealed, resealed>>

\* VoiceClient.SendVoice: seqNum++, then Encrypt under the shared key with
\* buildNonce(sessionID, seqNum), then the write.  On a VoiceClient that
\* was closed (the capture loop took it before the disconnect) the packet
\* is sealed all the same and only the write fails.
SendVoice(k) ==
    /\ UNCHANGED notNonce
    /\ vc[k].sessionID # 0
    /\ vc[k].seqNum < MaxSeq
    /\ LET seqNum == vc[k].seqNum + 1
           nonce == buildNonce(vc[k].sessionID, seqNum, NonceSize) IN
       /\ vc' = [vc EXCEPT ![k].seqNum = seqNum]
       /\ sealed' = sealed \cup {nonce}
       /\ resealed' = IF nonce \in sealed THEN resealed \cup {nonce} ELSE resealed
    /\ UNCHANGED sessLive

\* The connection ends on the server: the deferred cleanup's
\* SessionManager.Remove.  The client's VoiceClient is not touched by it.
Logout(k) ==
    /\ UNCHANGED notNonce
    /\ vc[k].srv # 0
    /\ sessLive' = sessLive \ {vc[k].srv}
    /\ vc' = [vc EXCEPT ![k].srv = 0]
    /\ UNCHANGED <<sealed, resealed>>

\* The client's Disconnect: voice.Close closes the UDP socket and leaves
\* sessionID and seqNum as they are; an unused AuthResponse is dropped.
VoiceClose(k) ==
    /\ UNCHANGED notNonce
    /\ vc[k].on \/ vc[k].resp # 0
    /\ vc' = [vc EXCEPT ![k].resp = 0, ![k].on = FALSE]
    /\ UNCHANGED <<sessLive, sealed, resealed>>

NextNonce ==
    \/ \E k \in Clients, id \in SessionIDs : Login(k, id)
    \/ \E k \in Clients : NewVoiceClient(k)
    \/ \E k \in Clients : SendVoice(k)
    \/ \E k \in Clients : Logout(k)
    \/ \E k \in Clients : VoiceClose(k)

\* ------------------------------------------------------- control plane

\* A ServerStateEvent: the ids of the listed channels and, per listed
\* channel, its users.  got = FALSE is "no event".
NoState == [got |-> FALSE, ex |-> {}, users |-> [c \in ChanIds |-> {}]]

\* ListChannels, then buildChannelInfos, on one state of the tables and
\* maps: every row of the channels table, each with channelUsers(id) = the
\* members that still have a session.  The handlers compute it read by
\* read (CtlList, CtlChanMembers, CtlChanSnapshot); this is what a client
\* that is up to date has been shown.
buildChannelInfos(rows, m, live) ==
    [got |-> TRUE,
     ex |-> {c \in ChanIds : rows[c] # "none"},
     users |-> [c \in ChanIds |->
                  IF rows[c] # "none" THEN {s \in Members(m, c) : s \in live} ELSE {}]]

\* The last request a handler answered: who asked, with which session role
\* (as the handler read it), the error code written to the requester
\* (0 = none), and whether the handler has changed the server's state.  For
\* a temp sub-channel request arg is its parent_id and subOK what the
\* handler found when it read the parent (the row exists and allows
\* sub-channels, and the rate limit has passed) and made the kind of the row
\* CreateChannel inserted for it.
NoReply ==
    [sid |-> 0, op |-> "-", role |-> RoleUser, arg |-> 0, valid |-> TRUE, code |-> 0,
     changed |-> FALSE, subOK |-> TRUE, made |-> "none", runes |-> 0, bytes |-> 0]

\* The task of one control connection.  pc is its position; c, x, arg and
\* role are the locals of the handler it is in (a channel, a session, a
\* number, a role), del the channel a delete handler was asked to delete,
\* todo the sessions a loop has yet to visit, bc the channels
\* buildChannelInfos has yet to fill, built the ServerStateEvent under
\* construction, dest whom it goes to ("self": sendServerState, "all":
\* broadcastServerState), ret where the task goes after the broadcast
\* ("idle": the message loop, "off": it ends), rq the request as the reply
\* will describe it, left the requests the client has yet to send.
OffConn ==
    [pc |-> "off", c |-> 0, x |-> 0, arg |-> 0, role |-> RoleUser, del |-> 0, todo |-> {},
     bc |-> {}, built |-> NoState, dest |-> "all", ret |-> "idle", rq |-> NoReply,
     left |-> 0]
IdleConn(left) == [OffConn EXCEPT !.pc = "idle", !.left = left]

\* The handler of the next request of connection s, at position pc.
Start(s, pc) == [OffConn EXCEPT !.pc = pc, !.left = ctl[s].left - 1]

\* The message loop after a request that was answered at once.
Answered(s) == IdleConn(ctl[s].left - 1)

\* The handler h returns: into the message loop, or the task ends.
Back(h) == IF h.ret = "idle" THEN IdleConn(h.left) ELSE OffConn

\* The handler h calls broadcastServerState, sendServerState.
ToBroadcast(h) == [OffConn EXCEPT !.pc = "list", !.left = h.left, !.ret = h.ret, !.del = h.del]
ToSend(h) == [ToBroadcast(h) EXCEPT !.dest = "self"]

\* The cleanup goroutines, in slots: a goroutine keeps its slot while it
\* lives, and a slot whose goroutine has returned is NoTimer.  rejoined
\* records that the goroutine's channel got a member while it was asleep.
NoTimer == [pc |-> "none", ch |-> 0, rejoined |-> FALSE]

\* go func() of cleanupTempChannel: one more goroutine, asleep, for channel
\* chID.  The statement never waits: the goroutine takes the least slot
\* that is free, or a new one.
Spawned(tm, chID) ==
    LET free == {k \in DOMAIN tm : tm[k].pc = "none"}
        slot == IF free = {} THEN Len(tm) + 1
                ELSE CHOOSE k \in free : \A j \in free : k <= j
        new == [pc |-> "sleep", ch |-> chID, rejoined |-> FALSE] IN
    IF slot > Len(tm) THEN Append(tm, new) ELSE [tm EXCEPT ![slot] = new]

\* Run: the Lobby row is created when the table is empty; nobody connected.
InitCtl ==
    /\ ctl = [s \in CtlSids |-> OffConn]
    /\ connMap = {}
    /\ sessChannel = [s \in SessIds |-> 0]
    /\ chanRows = [c \in ChanIds |-> IF c = 1 THEN "perm" ELSE "none"]
    /\ chanSeq = 1
    /\ chanMax = [c \in ChanIds |-> 0]
    /\ timers = <<>>
    /\ lastState = [s \in CtlSids |-> NoState]

\* The goroutines asleep for channel c, after c got a member.
Rejoined(tm, c) ==
    [k \in DOMAIN tm |-> IF tm[k].pc = "sleep" /\ tm[k].ch = c
                      THEN [tm[k] EXCEPT !.rejoined = TRUE] ELSE tm[k]]

\* The max_users check of handleJoinChannel: TRUE when the join goes on.
MaxUsersOK(max, count) == ~(max > 0 /\ count >= max)

\* ControlHandler.removeConn without its delete.
removeConnKept(conns, sessionID) == conns

\* ControlHandler.removeConn.
removeConn(conns, sessionID) == conns \ {sessionID}

\* The recheck of the cleanup goroutine: TRUE when it goes on to delete.
StillEmpty(m, chID) == ~(MembersCount(m, chID) > 0)

\* ControlHandler.mu is free of readers: no broadcastServerState is inside
\* its write loop, which holds the read lock from the first write to the
\* last.  setConn and removeConn take the write lock and wait for that.
NoReader == \A t \in CtlSids : ctl[t].pc # "wloop"

\* A handler that looked up the conn of session sid holds that conn; once
\* removeConn has dropped it the conn is that of a task that is ending, and
\* a Close of it changes nothing.
Dropped(hs, sid) ==
    [t \in CtlSids |-> IF hs[t].pc = "k_close" /\ hs[t].x = sid
                       THEN [hs[t] EXCEPT !.x = 0] ELSE hs[t]]

\* ------------------------------------------------- control framing

\* The tasks that write to one control connection: the connection's own
\* handler and the handlers of other connections that broadcast or send a
\* kick or ban notice to it.  None of them takes a lock for the
\* connection; a single conn.Write is not torn by another.
Writers == 1..MaxWriters

LenChunk(f) == [kind |-> "len", f |-> f]
PayloadChunk(f) == [kind |-> "payload", f |-> f]

InitWire ==
    /\ wire = <<>>
    /\ wpc = [w \in Writers |-> 0]
    /\ wseq = 0

\* The first Write of WriteControlMessage: w.Write(lenBuf).
WrittenLen(wr, f) == Append(wr, LenChunk(f))

\* The second Write of WriteControlMessage: w.Write(data).
WrittenPayload(wr, f) == Append(wr, PayloadChunk(f))

\* WriteControlMessage up to and including its first Write, for the next
\* message some task sends to the connection.
WriteLen(w) ==
    /\ UNCHANGED notWire
    /\ wpc[w] = 0
    /\ wseq < MaxFrames
    /\ wseq' = wseq + 1
    /\ wire' = WrittenLen(wire, wseq + 1)
    /\ wpc' = [wpc EXCEPT ![w] = wseq + 1]

\* WriteControlMessage, its second Write; the call returns.
WritePayload(w) ==
    /\ UNCHANGED notWire
    /\ wpc[w] # 0
    /\ wire' = WrittenPayload(wire, wpc[w])
    /\ wpc' = [wpc EXCEPT ![w] = 0]
    /\ UNCHANGED wseq

NextWire ==
    \/ \E w \in Writers : WriteLen(w)
    \/ \E w \in Writers : WritePayload(w)

\* --------------------------------------------------- authentication

\* Usernames that pass isValidUsername; BadName does not.
Usernames == {"alice", "bob"}
BadName == "a b"

\* Tokens a client can send: none, the invite token, one that matches no
\* row, and the token the server generated for user u.
NoToken == [kind |-> "none", u |-> 0]
InviteToken == [kind |-> "invite", u |-> 0]
BogusToken == [kind |-> "bogus", u |-> 0]
GeneratedToken(u) == [kind |-> "generated", u |-> u]
UserIds == 1..Cardinality(Usernames)
AuthTokens == {NoToken, InviteToken, BogusToken} \cup {GeneratedToken(u) : u \in UserIds}

\* crypto.HashToken: SHA-256, taken as collision free.
HashToken(tok) == [h |-> tok]
NoHash == [h |-> [kind |-> "null", u |-> 0]]

\* The auth-first guard: msg.AuthRequest != nil.
FirstMessageOKAny(kind) == TRUE
FirstMessageOK(kind) == kind = "auth"

NoUser == [id |-> 0, role |-> RoleUser, pt |-> NoHash]

\* IsUserBanned with the NULL test left out of the query.
IsUserBannedTimedOnly(rows, uid, t) ==
    Cardinality({b \in rows : b.uid = uid /\ b.exp > t}) > 0

\* IsUserBanned: COUNT(*) of the user's rows with expires_at NULL or later
\* than now, > 0.
IsUserBanned(rows, uid, t) ==
    Cardinality({b \in rows : b.uid = uid /\ (b.exp = 0 \/ b.exp > t)}) > 0

\* GetUserByPersonalTokenHash: the username of the row with that hash, "-"
\* when there is none.
GetUserByPersonalTokenHash(us, hash) ==
    IF \E n \in Usernames : us[n].id # 0 /\ us[n].pt = hash
    THEN CHOOSE n \in Usernames : us[n].id # 0 /\ us[n].pt = hash
    ELSE "-"

\* Which tokens row a token's hash selects: the invite token's, the row of
\* an auto-generated token (username handshake only), or none.
TokenRow(impl, tok, autoT) ==
    IF tok.kind = "invite" THEN "invite"
    ELSE IF impl = "username" /\ tok.kind = "generated" /\ tok.u \in autoT THEN "auto"
    ELSE "none"

\* The role ValidateToken returns for the row.
TokenRole(tok) == IF tok.kind = "invite" THEN tokRole ELSE RoleUser

\* The users table after CreateUser(name, role): the next id, no personal
\* token yet.
CreateUser(us, seq, name, role) ==
    [us EXCEPT ![name] = [id |-> seq + 1, role |-> role, pt |-> NoHash]]

\* The first message of a connection: something else, or an AuthRequest
\* with a username and a token.
OtherRequest == [kind |-> "other", name |-> "-", tok |-> NoToken]
AuthRequests ==
    {OtherRequest} \cup
    {[kind |-> "auth", name |-> n, tok |-> t] : n \in Usernames \cup {BadName}, t \in AuthTokens}

\* TRUE when the token of the request hashes to the stored personal token
\* hash of the user with id uid.
TokenMatchesUser(us, tok, uid) ==
    /\ tok # NoToken
    /\ \E n \in Usernames : us[n].id = uid /\ uid # 0 /\ us[n].pt = HashToken(tok)

\* TRUE when the user has a ban row that is permanent or not yet expired.
HasActiveBan(rows, uid, t) ==
    \E b \in rows : b.uid = uid /\ (b.exp = 0 \/ b.exp > t)

\* A connection's handleControlConn: where it is (pc), the request it read,
\* the error codes written to the connection so far, the user row it found
\* or made, its session, and what happened on the way: tx = the deferred
\* Rollback is registered, took = its ValidateToken committed a use,
\* matched = the row it adopted has the request's token as personal token,
\* banned = the user had an active ban when IsUserBanned ran.  The request
\* is forgotten when the handshake is over.
NewConn ==
    [pc |-> "new", kind |-> "-", name |-> "-", tok |-> NoToken, codes |-> <<>>,
     sid |-> 0, user |-> 0, made |-> FALSE, role |-> RoleUser, matched |-> FALSE,
     banned |-> FALSE, closed |-> FALSE, crash |-> FALSE, tx |-> FALSE, took |-> FALSE]

\* sendError(code) and return: the deferred Rollback of the username
\* handshake then fails on the transaction ValidateToken has ended and
\* writes code 3; conn.Close.
Rejected(a, code) ==
    [a EXCEPT !.pc = "done", !.closed = TRUE, !.name = "-", !.tok = NoToken,
              !.codes = @ \o <<code>> \o (IF a.tx THEN <<3>> ELSE <<>>)]

\* The panic of a handshake whose st.Tx failed takes the process down.
Crashed == \E c \in DOMAIN auth : auth[c].crash

\* No users, no bans, nobody connected; the fixed tables of the
\* specifications that do not authenticate.
FixedAuth ==
    /\ authImpl = "username" /\ allowNoToken = FALSE /\ tokRole = RoleUser
    /\ users = [n \in Usernames |-> NoUser]
    /\ userSeq = 0
    /\ autoTok = {}
    /\ bans = {}
    /\ sessUser = [s \in SessIds |-> 0]
    /\ sessRole = [s \in SessIds |-> RoleUser]
    /\ auth = [c \in AuthConns |-> NewConn]

\* A server of either handshake, open or not, with one admin invite token
\* that MaxUses uses exhaust and that expires after MaxTime.
InitAuth ==
    /\ authImpl \in {"username", "personal"}
    /\ allowNoToken \in BOOLEAN
    /\ tokRole = RoleAdmin
    /\ users = [n \in Usernames |-> NoUser]
    /\ userSeq = 0
    /\ autoTok = {}
    /\ bans = {}
    /\ sessUser = [s \in SessIds |-> 0]
    /\ sessRole = [s \in SessIds |-> RoleUser]
    /\ auth = [c \in AuthConns |-> NewConn]
    /\ tokBackend = "sql" /\ tokMax = MaxUses /\ tokExp = MaxTime
    /\ tokUse = 0 /\ now = 0 /\ dbVer = 0 /\ dbWriter = 0
    /\ val = [v \in Validators |-> IdleVal]

\* What the steps of a handshake leave alone besides their own variables.
authTables == <<tokUse, now, users, userSeq, autoTok, bans, authImpl, allowNoToken, tokRole>>
authSessions == <<sessLive, connMap, sessUser, sessRole>>
authDb == <<dbVer, dbWriter, val>>

\* handleControlConn, the first message: ReadControlMessage, the
\* auth-first guard, and the checks that read nothing shared.  The username
\* handshake checks the name and the token's presence here; the personal
\* one looks the token up first and checks them afterwards.
AuthRead(c, req) ==
    /\ UNCHANGED <<notAuth, authTables, authSessions, authDb>>
    /\ ~Crashed
    /\ auth[c].pc = "new"
    /\ LET a == [auth[c] EXCEPT !.kind = req.kind, !.name = req.name, !.tok = req.tok] IN
       auth' = [auth EXCEPT ![c] =
          IF ~FirstMessageOK(req.kind) THEN Rejected(a, 1)
          ELSE IF authImpl = "personal"
               THEN IF req.tok # NoToken THEN [a EXCEPT !.pc = "ptlookup"]
                    ELSE IF req.name \notin Usernames THEN Rejected(a, 2)
                    ELSE IF ~allowNoToken THEN Rejected(a, 2)
                    ELSE [a EXCEPT !.pc = "create"]
          ELSE IF req.name \notin Usernames THEN Rejected(a, 2)
          ELSE IF req.tok = NoToken
               THEN IF ~allowNoToken THEN Rejected(a, 2) ELSE [a EXCEPT !.pc = "lookup"]
          ELSE [a EXCEPT !.pc = "tx"]]

\* The personal handshake's GetUserByPersonalTokenHash: a row found is the
\* user, with its stored role; without one the name is checked and the
\* token goes to ValidateToken.
AuthPtLookup(c, fault) ==
    /\ UNCHANGED <<notAuth, authTables, authSessions, authDb>>
    /\ ~Crashed
    /\ auth[c].pc = "ptlookup"
    /\ LET a == auth[c]
           found == GetUserByPersonalTokenHash(users, HashToken(a.tok)) IN
       auth' = [auth EXCEPT ![c] =
          IF fault THEN Rejected(a, 3)
          ELSE IF found # "-"
               THEN [a EXCEPT !.pc = "ban", !.name = found, !.user = users[found].id,
                              !.role = users[found].role,
                              !.matched = TokenMatchesUser(users, a.tok, users[found].id)]
          ELSE IF a.name \notin Usernames THEN Rejected(a, 2)
          ELSE [a EXCEPT !.pc = "tx"]]

\* BeginTx, by st.Tx of the username handshake or inside ValidateToken of
\* the personal one.  When st.Tx fails the username handshake writes code 3
\* and goes on to call ValidateToken on the nil transaction, which panics;
\* the personal one gets the error back from ValidateToken (code 2).
AuthTx(c, fault) ==
    /\ UNCHANGED <<notAuth, authTables, authSessions, dbVer, dbWriter>>
    /\ ~Crashed
    /\ auth[c].pc = "tx"
    /\ val[c].pc = "idle"
    /\ LET a == auth[c] IN
       IF fault
       THEN /\ auth' = [auth EXCEPT ![c] =
                          IF authImpl = "username"
                          THEN [a EXCEPT !.pc = "done", !.codes = @ \o <<3>>, !.closed = TRUE,
                                         !.crash = TRUE]
                          ELSE Rejected(a, 2)]
            /\ UNCHANGED val
       ELSE /\ auth' = [auth EXCEPT ![c] = [a EXCEPT !.pc = "validate",
                                                     !.tx = (authImpl = "username")]]
            /\ val' = [val EXCEPT ![c] =
                          [IdleVal EXCEPT !.pc = "select",
                                          !.row = TokenRow(authImpl, a.tok, autoTok),
                                          !.known = TokenRow(authImpl, a.tok, autoTok) # "none"]]

\* ValidateToken has returned.  An error is answered with code 2.  After a
\* success the username handshake calls Commit on the transaction that
\* ValidateToken has committed already: code 3 is written and the
\* handshake goes on.
AuthValidated(c) ==
    /\ UNCHANGED <<notAuth, authTables, authSessions, dbVer, dbWriter>>
    /\ ~Crashed
    /\ auth[c].pc = "validate"
    /\ val[c].pc = "done"
    /\ val' = [val EXCEPT ![c] = IdleVal]
    /\ LET a == auth[c] IN
       auth' = [auth EXCEPT ![c] =
          IF val[c].res # "ok" THEN Rejected(a, 2)
          ELSE IF authImpl = "username"
               THEN [a EXCEPT !.pc = "lookup", !.took = TRUE, !.codes = @ \o <<3>>]
          ELSE [a EXCEPT !.pc = "create", !.took = TRUE]]

\* The username handshake's GetUserByUsername: an existing row is the user,
\* with its stored role; without one the user is to be created.
AuthLookup(c, fault) ==
    /\ UNCHANGED <<notAuth, authTables, authSessions, authDb>>
    /\ ~Crashed
    /\ auth[c].pc = "lookup"
    /\ LET a == auth[c] IN
       auth' = [auth EXCEPT ![c] =
          IF fault THEN Rejected(a, 3)
          ELSE IF users[a.name].id # 0
               THEN [a EXCEPT !.pc = "ban", !.user = users[a.name].id,
                              !.role = users[a.name].role,
                              !.matched = TokenMatchesUser(users, a.tok, users[a.name].id)]
          ELSE [a EXCEPT !.pc = "create"]]

\* CreateUser with the token's role.  The INSERT fails on the UNIQUE
\* username when a row of that name exists by now: code 3 in the username
\* handshake, code 2 ("personal token required") in the personal one.
AuthCreateUser(c, fault) ==
    /\ UNCHANGED <<notAuth, authSessions, val>>
    /\ ~Crashed
    /\ auth[c].pc = "create"
    /\ LET a == auth[c]
           role == IF a.tok = NoToken THEN RoleUser ELSE TokenRole(a.tok) IN
       IF fault \/ users[a.name].id # 0
       THEN /\ auth' = [auth EXCEPT ![c] =
                          Rejected(a, IF ~fault /\ authImpl = "personal" THEN 2 ELSE 3)]
            /\ UNCHANGED <<users, userSeq, dbVer, dbWriter>>
       ELSE /\ dbWriter = 0 /\ dbVer < MaxDbVer
            /\ users' = CreateUser(users, userSeq, a.name, role)
            /\ userSeq' = userSeq + 1
            /\ dbVer' = Committed
            /\ UNCHANGED dbWriter
            /\ auth' = [auth EXCEPT ![c] =
                          [a EXCEPT !.pc = IF authImpl = "username" /\ a.tok # NoToken
                                           THEN "ban" ELSE "token",
                                    !.user = userSeq + 1, !.made = TRUE, !.role = role]]
    /\ UNCHANGED <<tokUse, now, autoTok, bans, authImpl, allowNoToken, tokRole>>

\* The token made for a new user.  The username handshake stores an
\* unlimited tokens row for a token-less join and ignores CreateToken's
\* error; the personal one stores the hash in the user's row and gives up
\* with code 3 when UpdateUserPersonalToken fails.
AuthStoreToken(c, fault) ==
    /\ UNCHANGED <<notAuth, authSessions, val>>
    /\ ~Crashed
    /\ auth[c].pc = "token"
    /\ LET a == auth[c] IN
       IF fault
       THEN /\ auth' = [auth EXCEPT ![c] =
                          IF authImpl = "username" THEN [a EXCEPT !.pc = "ban"]
                          ELSE Rejected(a, 3)]
            /\ UNCHANGED <<users, autoTok, dbVer, dbWriter>>
       ELSE /\ dbWriter = 0 /\ dbVer < MaxDbVer
            /\ dbVer' = Committed
            /\ UNCHANGED dbWriter
            /\ IF authImpl = "username"
               THEN autoTok' = autoTok \cup {a.user} /\ UNCHANGED users
               ELSE /\ users' = [users EXCEPT ![a.name].pt = HashToken(GeneratedToken(a.user))]
                    /\ UNCHANGED autoTok
            /\ auth' = [auth EXCEPT ![c] = [a EXCEPT !.pc = "ban"]]
    /\ UNCHANGED <<tokUse, now, userSeq, bans, authImpl, allowNoToken, tokRole>>

\* IsUserBanned(user.ID): code 3 on an error, code 4 for a banned user.
AuthBanCheck(c, fault) ==
    /\ UNCHANGED <<notAuth, authTables, authSessions, authDb>>
    /\ ~Crashed
    /\ auth[c].pc = "ban"
    /\ LET a == auth[c] IN
       auth' = [auth EXCEPT ![c] =
          IF fault THEN Rejected(a, 3)
          ELSE IF IsUserBanned(bans, a.user, now)
               THEN [Rejected(a, 4) EXCEPT !.banned = HasActiveBan(bans, a.user, now)]
          ELSE [a EXCEPT !.pc = "session", !.banned = HasActiveBan(bans, a.user, now)]]

\* SessionManager.Create, under sm.mu: a session with a random id that no
\* live session has, for the user and the role the handshake arrived at.
\* It never fails: there are more ids than connections, so one is free.
AuthSessCreate(c, sid) ==
    /\ UNCHANGED <<notAuth, authTables, authDb, connMap>>
    /\ ~Crashed
    /\ auth[c].pc = "session"
    /\ sid \in SessIds \ sessLive
    /\ sessLive' = sessLive \cup {sid}
    /\ sessUser' = [sessUser EXCEPT ![sid] = auth[c].user]
    /\ sessRole' = [sessRole EXCEPT ![sid] = auth[c].role]
    /\ auth' = [auth EXCEPT ![c].pc = "setconn", ![c].sid = sid]

\* ControlHandler.setConn, under ch.mu.
AuthSetConn(c) ==
    /\ UNCHANGED <<notAuth, authTables, authDb, sessLive, sessUser, sessRole>>
    /\ ~Crashed
    /\ auth[c].pc = "setconn"
    /\ NoReader
    /\ connMap' = connMap \cup {auth[c].sid}
    /\ auth' = [auth EXCEPT ![c].pc = "respond"]

\* The AuthResponse is written; when the write fails (err, or the conn has
\* been closed by a ban) the handler returns into its deferred cleanup.
AuthRespond(c, err) ==
    /\ UNCHANGED <<notAuth, authTables, authSessions, authDb>>
    /\ ~Crashed
    /\ auth[c].pc = "respond"
    /\ auth' = [auth EXCEPT ![c].pc = "done",
                            ![c].closed = err \/ auth[c].sid \in closedConns,
                            ![c].name = "-",
                            ![c].tok = NoToken]

\* The deferred cleanup of a connection that got a session: removeConn,
\* under ch.mu.
AuthRemoveConn(c) ==
    /\ UNCHANGED <<notAuthConn, authTables, authDb, sessLive, sessUser, sessRole>>
    /\ ~Crashed
    /\ auth[c].pc = "done" /\ auth[c].sid # 0
    /\ NoReader
    /\ connMap' = removeConn(connMap, auth[c].sid)
    /\ closedConns' = closedConns \ {auth[c].sid}
    /\ ctl' = Dropped(ctl, auth[c].sid)
    /\ auth' = [auth EXCEPT ![c].pc = "remove"]

\* The deferred cleanup, next: sessions.Remove, under sm.mu; the handler
\* returns and the slot is free for the next connection.
AuthRemove(c) ==
    /\ UNCHANGED <<notAuth, authTables, authDb, connMap>>
    /\ ~Crashed
    /\ auth[c].pc = "remove"
    /\ sessLive' = sessLive \ {auth[c].sid}
    /\ sessUser' = [s \in SessIds |-> IF s = auth[c].sid THEN 0 ELSE sessUser[s]]
    /\ sessRole' = [s \in SessIds |-> IF s = auth[c].sid THEN RoleUser ELSE sessRole[s]]
    /\ auth' = [auth EXCEPT ![c] = NewConn]

\* A rejected connection is closed; the slot is free for the next one.
AuthClose(c) ==
    /\ UNCHANGED <<notAuth, authTables, authSessions, authDb>>
    /\ ~Crashed
    /\ auth[c].pc = "done" /\ auth[c].sid = 0
    /\ auth' = [auth EXCEPT ![c] = NewConn]

\* CreateBan as handleBanUser calls it: expires_at NULL for duration 0,
\* now + duration otherwise.
CreateBan(uid, duration) ==
    /\ UNCHANGED <<notAuth, authSessions, val>>
    /\ ~Crashed
    /\ Cardinality(bans) < MaxBans
    /\ dbWriter = 0 /\ dbVer < MaxDbVer
    /\ dbVer' = Committed
    /\ UNCHANGED dbWriter
    /\ bans' = bans \cup {[uid |-> uid, exp |-> IF duration = 0 THEN 0 ELSE now + duration]}
    /\ UNCHANGED <<tokUse, now, authImpl, allowNoToken, tokRole, users, userSeq, autoTok, auth>>

\* The steps of the handshakes of the connections conns, for first messages
\* from reqs and store calls that fail as faults says; the transaction of
\* connection c's ValidateToken is validation c.
AuthSteps(conns, reqs, faults) ==
    \/ \E c \in conns, req \in reqs : AuthRead(c, req)
    \/ \E c \in conns, fault \in faults : AuthPtLookup(c, fault)
    \/ \E c \in conns, fault \in faults : AuthTx(c, fault)
    \/ \E c \in conns : SqlSelect(c)
    \/ \E c \in conns : SqlUpdate(c)
    \/ \E c \in conns : SqlCommit(c)
    \/ \E c \in conns : AuthValidated(c)
    \/ \E c \in conns, fault \in faults : AuthLookup(c, fault)
    \/ \E c \in conns, fault \in faults : AuthCreateUser(c, fault)
    \/ \E c \in conns, fault \in faults : AuthStoreToken(c, fault)
    \/ \E c \in conns, fault \in faults : AuthBanCheck(c, fault)
    \/ \E c \in conns, sid \in SessIds : AuthSessCreate(c, sid)
    \/ \E c \in conns : AuthSetConn(c)
    \/ \E c \in conns, err \in faults : AuthRespond(c, err)

NextAuth ==
    \/ AuthSteps(AuthConns, AuthRequests, BOOLEAN)
    \/ \E c \in AuthConns : AuthRemoveConn(c)
    \/ \E c \in AuthConns : AuthRemove(c)
    \/ \E c \in AuthConns : AuthClose(c)
    \/ \E uid \in 1..MaxBanTargets, duration \in 0..MaxBanTime : CreateBan(uid, duration)
    \/ Tick

\* The same server with several clients connecting at a time: the
\* handshakes of handleControlConn run one goroutine per connection.
InitLogin ==
    /\ authImpl \in {"username", "personal"}
    /\ allowNoToken \in BOOLEAN
    /\ tokRole = RoleAdmin
    /\ users = [n \in Usernames |-> NoUser]
    /\ userSeq = 0
    /\ autoTok = {}
    /\ bans = {}
    /\ sessUser = [s \in SessIds |-> 0]
    /\ sessRole = [s \in SessIds |-> RoleUser]
    /\ auth = [c \in LoginConns |-> NewConn]
    /\ tokBackend = "sql" /\ tokMax = MaxUses /\ tokExp = MaxTime
    /\ tokUse = 0 /\ now = 0 /\ dbVer = 0 /\ dbWriter = 0
    /\ val = [v \in Validators |-> IdleVal]

\* The first messages of the concurrent logins: requests under one name,
\* with no token, the invite token or the first user's token.
LoginRequests ==
    {[kind |-> "auth", name |-> "alice", tok |-> t] :
        t \in {NoToken, InviteToken, GeneratedToken(1)}}

NextLogin ==
    \/ AuthSteps(LoginConns, LoginRequests, {FALSE})
    \/ \E c \in LoginConns : AuthRemoveConn(c)
    \/ \E c \in LoginConns : AuthRemove(c)
    \/ \E c \in LoginConns : AuthClose(c)

\* ------------------------------------------- privileged operations

\* rbac.Permission, in the order of its iota.
PermCreateChannel == 0
PermDeleteChannel == 1
PermKickUser == 2
PermBanUser == 3
PermManageTokens == 4
PermEditChannel == 5
PermManageRoles == 6
Permissions == PermCreateChannel..PermManageRoles

\* rbac.permissionMatrix.
permissionMatrix ==
    [r \in Roles |->
        IF r = RoleAdmin THEN Permissions
        ELSE IF r = RoleModerator THEN {PermKickUser}
        ELSE {}]

\* HasPermission with the matrix lookup left out.
HasPermissionAll(role, perm) == TRUE

\* rbac.HasPermission: a role without a matrix entry has no permission.
HasPermission(role, perm) ==
    role \in DOMAIN permissionMatrix /\ perm \in permissionMatrix[role]

\* rbac.RequirePermission: "" when allowed, the denial message otherwise.
RequirePermission(role, perm) ==
    IF HasPermission(role, perm) THEN "" ELSE "permission denied"

\* model.ParseRole: the role names, anything else is RoleUser.
RoleNames == {"admin", "moderator", "user"}
ParseRole(str) ==
    IF str = "admin" THEN RoleAdmin
    ELSE IF str = "moderator" THEN RoleModerator
    ELSE RoleUser

\* The requests of the message loop that touch privileged state, and the
\* permission each handler requires.
PrivilegedOps ==
    {"create_channel", "delete_channel", "create_token", "kick", "ban", "set_role",
     "export", "import"}
RequiredPerm(op) ==
    CASE op = "create_channel" -> PermCreateChannel
      [] op = "delete_channel" -> PermDeleteChannel
      [] op = "create_token" -> PermManageTokens
      [] op = "kick" -> PermKickUser
      [] op = "ban" -> PermBanUser
      [] op = "set_role" -> PermManageRoles
      [] op = "export" -> PermCreateChannel
      [] op = "import" -> PermCreateChannel

\* The parent test of handleCreateChannel with both checks left out.
ParentAllowsAny(rows, parent, subOK) == TRUE

\* The parent test of a temp sub-channel request: the parent's row exists
\* and has allow_sub_channels set.
ParentAllows(rows, parent, subOK) == rows[parent] # "none" /\ subOK

\* No privileged request was handled; the tables of the specifications
\* without them.
FixedAdm ==
    /\ closedConns = {}
    /\ tokCount = [r \in Roles |-> 0]
    /\ reply = NoReply

\* SessionManager.GetByUserIDSnapshot: the sessions the map iteration can
\* return for a user id.
GetByUserID(live, su, uid) == {t \in live : su[t] = uid}

\* UpdateUserRole: UPDATE users SET role WHERE id.
UpdateUserRole(us, uid, role) ==
    [n \in Usernames |-> IF us[n].id = uid THEN [us[n] EXCEPT !.role = role] ELSE us[n]]

\* handleSetUserRole without its permission check and escalation guard.
SetUserRoleCheckSelfOnly(role, uid, target, newRole) ==
    IF target = uid THEN 31 ELSE 0

\* handleSetUserRole, the checks before UpdateUserRole: the permission, the
\* self-change guard and the escalation guard; 0 when all pass.
SetUserRoleCheck(role, uid, target, newRole) ==
    IF RequirePermission(role, PermManageRoles) # "" THEN 30
    ELSE IF target = uid THEN 31
    ELSE IF newRole > role THEN 31
    ELSE 0

\* ---------------------------------------------- control connections
\* The tasks of the control connections, one step per lock acquisition,
\* datastore statement or connection write.  What a step leaves alone:
notSrv ==
    <<cmMu, cmTask, tokBackend, tokMax, tokExp, tokUse, now, dbWriter, val, sessUDP, vl,
      nonceVars, authImpl, allowNoToken, tokRole, userSeq, autoTok, auth, jbVars, wireVars,
      chatVars, runVars, vadVars>>
sessTab == <<sessLive, sessMuted, sessDeaf, sessChannel, sessUser, sessRole>>
connTab == <<connMap, closedConns>>
chanTab == <<chanRows, chanSeq, chanMax>>
admTab == <<users, bans, tokCount>>

\* A step that moves only the task itself.
OnlyCtl ==
    UNCHANGED <<notSrv, chanMaps, sessTab, connTab, chanTab, admTab, timers, lastState,
                reply, dbVer>>

\* A step that moves the task and answers the requester.
OnlyCtlReply ==
    UNCHANGED <<notSrv, chanMaps, sessTab, connTab, chanTab, admTab, timers, lastState,
                dbVer>>

\* A statement that writes the database commits: it needs the write lock
\* free and moves a read snapshot that is open into the past.
Stored == dbWriter = 0 /\ Committed <= MaxDbVer /\ dbVer' = Committed

\* The message loop reads the next request from connection s: the task is
\* between two handlers, the conn is open, the client has a request to send.
Serving(s) == ctl[s].pc = "idle" /\ s \notin closedConns /\ ctl[s].left > 0

\* The request of session s as its reply will describe it.
NewReq(s, op, arg, valid) ==
    [sid |-> s, op |-> op, role |-> sessRole[s], arg |-> arg, valid |-> valid,
     code |-> 0, changed |-> FALSE, subOK |-> TRUE, made |-> "none", runes |-> 0, bytes |-> 0]
Answer(rq, code, changed) == [rq EXCEPT !.code = code, !.changed = changed]

\* --- handleControlConn around the message loop

\* sessions.Create after a successful authentication; the client will send
\* left requests.
CtlCreate(s, left) ==
    /\ ctl[s].pc = "off"
    /\ s \notin sessLive
    /\ sessLive' = sessLive \cup {s}
    /\ lastState' = IF s \in DOMAIN lastState THEN [lastState EXCEPT ![s] = NoState]
                    ELSE lastState
    /\ ctl' = [ctl EXCEPT ![s] = [OffConn EXCEPT !.pc = "setconn", !.left = left]]
    /\ UNCHANGED <<notSrv, chanMaps, sessMuted, sessDeaf, sessChannel, sessUser, sessRole,
                   connTab, chanTab, admTab, timers, reply, dbVer>>

\* handler.setConn, under the write lock of ControlHandler.mu.
CtlSetConn(s) ==
    /\ ctl[s].pc = "setconn"
    /\ NoReader
    /\ connMap' = connMap \cup {s}
    /\ ctl' = [ctl EXCEPT ![s].pc = "respond"]
    /\ UNCHANGED <<notSrv, chanMaps, sessTab, closedConns, chanTab, admTab, timers,
                   lastState, reply, dbVer>>

\* channels.Leave, the first call of the deferred cleanup: the task of
\* connection s ends.  It returns the channel that was left.
EndLeave(s) ==
    /\ members' = LeaveMembers(members, sessionToChannel, s)
    /\ sessionToChannel' = LeaveS2C(sessionToChannel, s)
    /\ ctl' = [ctl EXCEPT ![s] = [OffConn EXCEPT !.pc = "e_conn", !.ret = "off",
                                                 !.c = sessionToChannel[s]]]
    /\ UNCHANGED <<notSrv, sessTab, connTab, chanTab, admTab, timers, lastState, reply,
                   dbVer>>

\* ListChannels, buildChannelInfos and the write of the AuthResponse (which
\* is no ServerStateEvent); then the message loop.  err: the write fails,
\* and the handler returns into its deferred cleanup.
CtlRespond(s, err) ==
    /\ ctl[s].pc = "respond"
    /\ IF err THEN EndLeave(s)
       ELSE /\ ctl' = [ctl EXCEPT ![s] = IdleConn(ctl[s].left)]
            /\ OnlyCtl

\* The message loop's read fails because the client has gone: the deferred
\* cleanup begins.
CtlDisconnect(s) ==
    /\ ctl[s].pc = "idle"
    /\ s \notin closedConns
    /\ EndLeave(s)

\* The message loop's read fails because a kick or a ban has closed the
\* conn: the deferred cleanup begins.
CtlClosed(s) ==
    /\ ctl[s].pc = "idle"
    /\ s \in closedConns
    /\ EndLeave(s)

\* The deferred cleanup, next: handler.removeConn, under the write lock.
CtlRemoveConn(s) ==
    /\ ctl[s].pc = "e_conn"
    /\ NoReader
    /\ connMap' = removeConn(connMap, s)
    /\ closedConns' = closedConns \ {s}
    /\ ctl' = [Dropped(ctl, s) EXCEPT ![s].pc = "e_sess"]
    /\ UNCHANGED <<notSrv, chanMaps, sessTab, chanTab, admTab, timers, lastState, reply,
                   dbVer>>

\* The deferred cleanup, next: sessions.Remove.  For a channel that was
\* left the ChannelLeftEvent goes to its members (no state of this model)
\* and cleanupTempChannel is next, otherwise the broadcast.
CtlRemove(s) ==
    /\ ctl[s].pc = "e_sess"
    /\ sessLive' = sessLive \ {s}
    /\ sessChannel' = [sessChannel EXCEPT ![s] = 0]
    /\ sessMuted' = [sessMuted EXCEPT ![s] = FALSE]
    /\ sessDeaf' = [sessDeaf EXCEPT ![s] = FALSE]
    /\ ctl' = [ctl EXCEPT ![s] = IF ctl[s].c > 0 THEN [ctl[s] EXCEPT !.pc = "c_get"]
                                 ELSE ToBroadcast(ctl[s])]
    /\ UNCHANGED <<notSrv, chanMaps, sessUser, sessRole, connTab, chanTab, admTab, timers,
                   lastState, reply, dbVer>>

\* --- cleanupTempChannel

\* GetChannel: the function returns unless the read succeeds and the row
\* is there and is_temp.  fail: the read returns an error.
CtlCleanupGet(s, fail) ==
    /\ ctl[s].pc = "c_get"
    /\ ctl' = [ctl EXCEPT ![s] = IF ~fail /\ chanRows[ctl[s].c] = "temp"
                                 THEN [ctl[s] EXCEPT !.pc = "c_count"]
                                 ELSE ToBroadcast(ctl[s])]
    /\ OnlyCtl

\* MembersCount: with no member the goroutine is started, whatever other
\* goroutines are asleep, for this channel or another.
CtlCleanupCount(s) ==
    /\ ctl[s].pc = "c_count"
    /\ timers' = IF MembersCount(members, ctl[s].c) > 0 THEN timers
                 ELSE Spawned(timers, ctl[s].c)
    /\ ctl' = [ctl EXCEPT ![s] = ToBroadcast(ctl[s])]
    /\ UNCHANGED <<notSrv, chanMaps, sessTab, connTab, chanTab, admTab, lastState, reply,
                   dbVer>>

\* The cleanup goroutine after its 5 minute sleep: the MembersCount recheck.
CleanupWake(k) ==
    /\ timers[k].pc = "sleep"
    /\ timers' = [timers EXCEPT ![k] =
                    IF StillEmpty(members, timers[k].ch)
                    THEN [timers[k] EXCEPT !.pc = "delete"] ELSE NoTimer]
    /\ UNCHANGED <<notSrv, chanMaps, sessTab, connTab, chanTab, admTab, ctl, lastState,
                   reply, dbVer>>

\* The cleanup goroutine's DeleteChannel; it returns without a broadcast.
\* fault: the DELETE fails, which is logged: the row stays and the
\* goroutine returns all the same.
CleanupDelete(k, fault) ==
    /\ timers[k].pc = "delete"
    /\ IF fault
       THEN UNCHANGED <<chanRows, chanMax, dbVer>>
       ELSE /\ Stored
            /\ chanRows' = [chanRows EXCEPT ![timers[k].ch] = "none"]
            /\ chanMax' = [chanMax EXCEPT ![timers[k].ch] = 0]
    /\ timers' = [timers EXCEPT ![k] = NoTimer]
    /\ UNCHANGED <<notSrv, chanMaps, sessTab, connTab, chanSeq, admTab, ctl, lastState,
                   reply>>

\* --- sendServerState and broadcastServerState

\* The least channel of a set: ListChannels returns the rows in id order.
Lowest(S) == CHOOSE c \in S : \A d \in S : c <= d

\* buildChannelInfos has filled its current channel: the next one, or the
\* write.
AfterChan(h) ==
    [h EXCEPT !.bc = h.bc \ {h.c}, !.c = 0, !.todo = {},
              !.pc = IF h.bc \ {h.c} = {} THEN "write" ELSE "chan"]

\* ListChannels.  fail: it returns an error, which is dropped, and the
\* list is empty.
CtlList(s, fail) ==
    /\ ctl[s].pc = "list"
    /\ LET ex == IF fail THEN {} ELSE {c \in ChanIds : chanRows[c] # "none"} IN
        ctl' = [ctl EXCEPT ![s].built = [NoState EXCEPT !.got = TRUE, !.ex = ex],
                           ![s].bc = ex,
                           ![s].pc = IF ex = {} THEN "write" ELSE "chan"]
    /\ OnlyCtl

\* channelUsers of the next channel of the list: channels.Members.
CtlChanMembers(s) ==
    /\ ctl[s].pc = "chan"
    /\ LET c == Lowest(ctl[s].bc)
           h == [ctl[s] EXCEPT !.c = c, !.todo = Members(members, c)] IN
        ctl' = [ctl EXCEPT ![s] = IF h.todo = {} THEN AfterChan(h)
                                  ELSE [h EXCEPT !.pc = "snap"]]
    /\ OnlyCtl

\* channelUsers, the loop body: sessions.GetSnapshot of member x, which is
\* listed when it has a session.
CtlChanSnapshot(s, x) ==
    /\ ctl[s].pc = "snap"
    /\ x \in ctl[s].todo
    /\ LET h == [ctl[s] EXCEPT !.todo = @ \ {x},
                               !.built.users[ctl[s].c] =
                                   IF x \in sessLive THEN @ \cup {x} ELSE @] IN
        ctl' = [ctl EXCEPT ![s] = IF h.todo = {} THEN AfterChan(h) ELSE h]
    /\ OnlyCtl

\* What client t has last been shown, after a write of state st to its
\* conn; a write that fails, or to a conn that was closed, shows nothing.
Shown(t, st, err) ==
    IF t \in DOMAIN lastState /\ ~err /\ t \notin closedConns
    THEN [lastState EXCEPT ![t] = st] ELSE lastState

\* sendServerState: the write to the handler's own conn; the error is
\* dropped.  In handleJoinChannel the broadcast is next.
CtlSend(s, err) ==
    /\ ctl[s].pc = "write" /\ ctl[s].dest = "self"
    /\ lastState' = Shown(s, ctl[s].built, err)
    /\ ctl' = [ctl EXCEPT ![s] = ToBroadcast(ctl[s])]
    /\ UNCHANGED <<notSrv, chanMaps, sessTab, connTab, chanTab, admTab, timers, reply,
                   dbVer>>

\* broadcastServerState, the loop over connMap under the read lock: one
\* write, to the conn of t; the error is dropped.  The first write takes
\* the lock, the last one releases it and the caller goes on.
CtlWrite(s, t, err) ==
    /\ ctl[s].dest = "all"
    /\ \/ ctl[s].pc = "write" /\ t \in connMap
       \/ ctl[s].pc = "wloop" /\ t \in ctl[s].todo
    /\ lastState' = Shown(t, ctl[s].built, err)
    /\ LET rest == (IF ctl[s].pc = "write" THEN connMap ELSE ctl[s].todo) \ {t} IN
        ctl' = [ctl EXCEPT ![s] = IF rest = {} THEN Back(ctl[s])
                                  ELSE [ctl[s] EXCEPT !.pc = "wloop", !.todo = rest]]
    /\ UNCHANGED <<notSrv, chanMaps, sessTab, connTab, chanTab, admTab, timers, reply,
                   dbVer>>

\* broadcastServerState with an empty connMap: nothing is written.
CtlWriteNone(s) ==
    /\ ctl[s].pc = "write" /\ ctl[s].dest = "all"
    /\ connMap = {}
    /\ ctl' = [ctl EXCEPT ![s] = Back(ctl[s])]
    /\ OnlyCtl

\* --- the handlers of the message loop

\* handleJoinChannel: GetChannel (code 10 when the row is missing); the row
\* read carries max_users.
CtlJoinGet(s, c) ==
    /\ Serving(s)
    /\ ctl' = [ctl EXCEPT ![s] = IF chanRows[c] = "none" THEN Answered(s)
                                 ELSE [Start(s, "j_count") EXCEPT !.c = c,
                                                                  !.arg = chanMax[c]]]
    /\ OnlyCtl

\* handleJoinChannel: the max_users check on MembersCount (code 11).
CtlJoinCount(s) ==
    /\ ctl[s].pc = "j_count"
    /\ ctl' = [ctl EXCEPT ![s] = IF MaxUsersOK(ctl[s].arg, MembersCount(members, ctl[s].c))
                                 THEN [ctl[s] EXCEPT !.pc = "j_join"]
                                 ELSE Back(ctl[s])]
    /\ OnlyCtl

\* handleJoinChannel: channels.Join.
CtlJoinDo(s) ==
    /\ ctl[s].pc = "j_join"
    /\ members' = JoinMembers(members, sessionToChannel, s, ctl[s].c)
    /\ sessionToChannel' = JoinS2C(sessionToChannel, s, ctl[s].c)
    /\ timers' = Rejoined(timers, ctl[s].c)
    /\ ctl' = [ctl EXCEPT ![s].pc = "j_set"]
    /\ UNCHANGED <<notSrv, sessTab, connTab, chanTab, admTab, lastState, reply, dbVer>>

\* sessions.SetChannel of session x, which changes a session that exists.
SetChannel(x, c) ==
    IF x \in sessLive THEN [sessChannel EXCEPT ![x] = c] ELSE sessChannel

\* handleJoinChannel: sessions.SetChannel; the channel events (no state of
\* this model) and sendServerState are next.
CtlJoinSet(s) ==
    /\ ctl[s].pc = "j_set"
    /\ sessChannel' = SetChannel(s, ctl[s].c)
    /\ ctl' = [ctl EXCEPT ![s] = ToSend(ctl[s])]
    /\ UNCHANGED <<notSrv, chanMaps, sessLive, sessMuted, sessDeaf, sessUser, sessRole,
                   connTab, chanTab, admTab, timers, lastState, reply, dbVer>>

\* handleLeaveChannel: channels.Leave, which returns the channel that was
\* left.
CtlLeave(s) ==
    /\ Serving(s)
    /\ members' = LeaveMembers(members, sessionToChannel, s)
    /\ sessionToChannel' = LeaveS2C(sessionToChannel, s)
    /\ ctl' = [ctl EXCEPT ![s] = [Start(s, "l_set") EXCEPT !.c = sessionToChannel[s]]]
    /\ UNCHANGED <<notSrv, sessTab, connTab, chanTab, admTab, timers, lastState, reply,
                   dbVer>>

\* handleLeaveChannel: SetChannel(0); for a channel that was left
\* cleanupTempChannel is next, otherwise the broadcast.
CtlLeaveSet(s) ==
    /\ ctl[s].pc = "l_set"
    /\ sessChannel' = SetChannel(s, 0)
    /\ ctl' = [ctl EXCEPT ![s] = IF ctl[s].c > 0 THEN [ctl[s] EXCEPT !.pc = "c_get"]
                                 ELSE ToBroadcast(ctl[s])]
    /\ UNCHANGED <<notSrv, chanMaps, sessLive, sessMuted, sessDeaf, sessUser, sessRole,
                   connTab, chanTab, admTab, timers, lastState, reply, dbVer>>

\* handleUserState: sessions.UpdateUserState; the broadcast is next.
CtlUserState(s, muted, deafened) ==
    /\ Serving(s)
    /\ sessMuted' = IF s \in sessLive THEN [sessMuted EXCEPT ![s] = muted] ELSE sessMuted
    /\ sessDeaf' = IF s \in sessLive THEN [sessDeaf EXCEPT ![s] = deafened] ELSE sessDeaf
    /\ ctl' = [ctl EXCEPT ![s] = ToBroadcast(Start(s, "list"))]
    /\ UNCHANGED <<notSrv, chanMaps, sessLive, sessChannel, sessUser, sessRole, connTab,
                   chanTab, admTab, timers, lastState, reply, dbVer>>

\* The channels rows that the handlers under way are still to insert (one
\* for a create, the rows left for an import): the model has MaxChan ids,
\* and a request that would need one more is not taken up.
RECURSIVE RowsAhead(_)
RowsAhead(S) ==
    IF S = {} THEN 0
    ELSE LET t == CHOOSE t \in S : TRUE IN
        (IF ctl[t].pc \in {"n_parent", "n_insert"} THEN 1
         ELSE IF ctl[t].pc \in {"i_chan", "i_insert"} THEN ctl[t].arg
         ELSE 0) + RowsAhead(S \ {t})
Inserting == RowsAhead(CtlSids)

\* --- texts of clients: chat texts and channel names
\* A text is a sequence of runs of one rune each: "a" (one byte in UTF-8),
\* "euro" (three bytes), "nl" (line feed) and "bel" (a control character);
\* sanitizing produces "sp" (space).
Runes == {"a", "euro", "nl", "bel"}
RunLens == {700, 2001}
TextRun == [r : Runes, n : RunLens]
Texts == UNION {[1..k -> TextRun] : k \in 0..MaxTextRuns}

\* utf8.RuneLen
RuneLen(r) == IF r = "euro" THEN 3 ELSE 1

\* unicode.IsSpace, as strings.TrimSpace uses it.
IsSpace(r) == r \in {"sp", "nl"}

RECURSIVE TrimLeft(_)
TrimLeft(t) == IF t # <<>> /\ IsSpace(Head(t).r) THEN TrimLeft(Tail(t)) ELSE t

RECURSIVE TrimRight(_)
TrimRight(t) ==
    IF t # <<>> /\ IsSpace(t[Len(t)].r) THEN TrimRight(SubSeq(t, 1, Len(t) - 1)) ELSE t

\* strings.TrimSpace
TrimSpace(t) == TrimRight(TrimLeft(t))

\* sanitizeText: CR and LF become spaces, every other control character is
\* dropped.
RECURSIVE sanitizeText(_)
sanitizeText(t) ==
    IF t = <<>> THEN <<>>
    ELSE LET h == Head(t) IN
         IF h.r = "nl" THEN <<[h EXCEPT !.r = "sp"]>> \o sanitizeText(Tail(t))
         ELSE IF h.r = "bel" THEN sanitizeText(Tail(t))
         ELSE <<h>> \o sanitizeText(Tail(t))

\* len(text): the length of the string in bytes.
RECURSIVE ByteLen(_)
ByteLen(t) == IF t = <<>> THEN 0 ELSE Head(t).n * RuneLen(Head(t).r) + ByteLen(Tail(t))

\* The number of characters of the string.
RECURSIVE RuneCount(_)
RuneCount(t) == IF t = <<>> THEN 0 ELSE Head(t).n + RuneCount(Tail(t))

\* The names a CreateChannelRequest can carry: runs of 30 and of 65 runes.
NameRunLens == {30, 65}
NameRun == [r : Runes, n : NameRunLens]
ChannelNames == UNION {[1..k -> NameRun] : k \in 0..MaxNameRuns}

\* The length limit of a channel name.
maxChannelNameLen == 64

\* handleCreateChannel: GetSnapshot (the role), the name check and, for a
\* permanent channel, the permission.  The name of the request is trimmed
\* and sanitized, and len(name), its length in bytes, has to be 1..64.  A
\* temp sub-channel request reads its parent next.
AdmCreateChannel(s, reqName, parent, isTemp) ==
    /\ Serving(s)
    /\ LET sub == parent > 0 /\ isTemp
           name == sanitizeText(TrimSpace(reqName))
           valid == ~(ByteLen(name) = 0 \/ ByteLen(name) > maxChannelNameLen)
           rq == [NewReq(s, IF sub THEN "create_temp" ELSE "create_channel",
                         IF sub THEN parent ELSE 0, valid)
                     EXCEPT !.runes = RuneCount(name), !.bytes = ByteLen(name)]
           code == IF ~valid THEN 31
                   ELSE IF sub THEN 0
                   ELSE IF RequirePermission(sessRole[s], PermCreateChannel) # "" THEN 30
                   ELSE 0 IN
        /\ code = 0 => chanSeq + Inserting < MaxChan
        /\ reply' = IF code # 0 THEN Answer(rq, code, FALSE) ELSE reply
        /\ ctl' = [ctl EXCEPT ![s] =
                     IF code # 0 THEN Answered(s)
                     ELSE [Start(s, IF sub THEN "n_parent" ELSE "n_insert")
                              EXCEPT !.c = parent, !.arg = IF isTemp THEN 1 ELSE 0,
                                     !.rq = rq]]
    /\ OnlyCtlReply

\* handleCreateChannel for a temp sub-channel: GetChannel of the parent,
\* its allow_sub_channels and the rate limit.  subOK: the parent, when it
\* exists, allows sub-channels and the rate limit has passed.
AdmCreateParent(s, subOK) ==
    /\ ctl[s].pc = "n_parent"
    /\ ~subOK => chanRows[ctl[s].c] # "none"
    /\ LET rq == [ctl[s].rq EXCEPT !.subOK = chanRows[ctl[s].c] # "none" /\ subOK] IN
        IF ParentAllows(chanRows, ctl[s].c, subOK)
        THEN /\ ctl' = [ctl EXCEPT ![s].pc = "n_insert", ![s].rq = rq]
             /\ UNCHANGED reply
        ELSE /\ ctl' = [ctl EXCEPT ![s] = Back(ctl[s])]
             /\ reply' = Answer(rq, 31, FALSE)
    /\ OnlyCtlReply

\* handleCreateChannel: CreateChannel, the INSERT that gives the row the
\* next id, with the request's max_users; the broadcast is next.
\* fault: the statement fails (code 31).
AdmCreateInsert(s, maxUsers, fault) ==
    /\ ctl[s].pc = "n_insert"
    /\ IF fault
       THEN /\ maxUsers = 0
            /\ reply' = Answer(ctl[s].rq, 31, FALSE)
            /\ ctl' = [ctl EXCEPT ![s] = Back(ctl[s])]
            /\ UNCHANGED <<chanTab, dbVer>>
       ELSE /\ Stored
            /\ chanRows' = [chanRows EXCEPT ![chanSeq + 1] =
                              IF ctl[s].arg = 1 THEN "temp" ELSE "perm"]
            /\ chanMax' = [chanMax EXCEPT ![chanSeq + 1] = maxUsers]
            /\ chanSeq' = chanSeq + 1
            /\ reply' = [Answer(ctl[s].rq, 0, TRUE)
                            EXCEPT !.made = IF ctl[s].arg = 1 THEN "temp" ELSE "perm"]
            /\ ctl' = [ctl EXCEPT ![s] = ToBroadcast(ctl[s])]
    /\ UNCHANGED <<notSrv, chanMaps, sessTab, connTab, admTab, timers, lastState>>

\* handleDeleteChannel: GetSnapshot (the role) and the permission.
AdmDeleteChannel(s, c) ==
    /\ Serving(s)
    /\ LET rq == NewReq(s, "delete_channel", 0, TRUE) IN
        IF RequirePermission(sessRole[s], PermDeleteChannel) # ""
        THEN /\ reply' = Answer(rq, 30, FALSE)
             /\ ctl' = [ctl EXCEPT ![s] = Answered(s)]
        ELSE /\ UNCHANGED reply
             /\ ctl' = [ctl EXCEPT ![s] = [Start(s, "x_row") EXCEPT !.del = c, !.rq = rq]]
    /\ OnlyCtlReply

\* handleDeleteChannel: DeleteChannel, the DELETE of the row.
\* fault: the statement fails (code 31).
CtlDeleteChannel(s, fault) ==
    /\ ctl[s].pc = "x_row"
    /\ IF fault
       THEN /\ reply' = Answer(ctl[s].rq, 31, FALSE)
            /\ ctl' = [ctl EXCEPT ![s] = Back(ctl[s])]
            /\ UNCHANGED <<chanTab, dbVer>>
       ELSE /\ Stored
            /\ chanRows' = [chanRows EXCEPT ![ctl[s].del] = "none"]
            /\ chanMax' = [chanMax EXCEPT ![ctl[s].del] = 0]
            /\ reply' = Answer(ctl[s].rq, 0, chanRows' # chanRows)
            /\ ctl' = [ctl EXCEPT ![s].pc = "x_members"]
            /\ UNCHANGED chanSeq
    /\ UNCHANGED <<notSrv, chanMaps, sessTab, connTab, admTab, timers, lastState>>

\* handleDeleteChannel: channels.Members, the list the loop goes through;
\* with no member the broadcast is next.
CtlDeleteMembers(s) ==
    /\ ctl[s].pc = "x_members"
    /\ LET todo == Members(members, ctl[s].del) IN
        ctl' = [ctl EXCEPT ![s] = IF todo = {} THEN ToBroadcast(ctl[s])
                                  ELSE [ctl[s] EXCEPT !.pc = "x_loop", !.todo = todo]]
    /\ OnlyCtl

\* handleDeleteChannel, the loop body's channels.Leave(sid): sid leaves the
\* channel it is in by now.
CtlDeleteLeave(s, x) ==
    /\ ctl[s].pc = "x_loop"
    /\ x \in ctl[s].todo
    /\ members' = LeaveMembers(members, sessionToChannel, x)
    /\ sessionToChannel' = LeaveS2C(sessionToChannel, x)
    /\ reply' = IF members' # members THEN Answer(ctl[s].rq, 0, TRUE) ELSE reply
    /\ ctl' = [ctl EXCEPT ![s].pc = "x_set", ![s].x = x]
    /\ UNCHANGED <<notSrv, sessTab, connTab, chanTab, admTab, timers, lastState, dbVer>>

\* handleDeleteChannel, the loop body's sessions.SetChannel(sid, 0); after
\* the last member the broadcast is next.
CtlDeleteSet(s) ==
    /\ ctl[s].pc = "x_set"
    /\ sessChannel' = SetChannel(ctl[s].x, 0)
    /\ reply' = IF sessChannel' # sessChannel THEN Answer(ctl[s].rq, 0, TRUE) ELSE reply
    /\ ctl' = [ctl EXCEPT ![s] = IF ctl[s].todo = {ctl[s].x} THEN ToBroadcast(ctl[s])
                                 ELSE [ctl[s] EXCEPT !.pc = "x_loop",
                                                     !.todo = @ \ {ctl[s].x}, !.x = 0]]
    /\ UNCHANGED <<notSrv, chanMaps, sessLive, sessMuted, sessDeaf, sessUser, sessRole,
                   connTab, chanTab, admTab, timers, lastState, dbVer>>

\* handleCreateToken: GetSnapshot (the role) and the permission; the role
\* of the row is what ParseRole gives.
AdmCreateToken(s, roleName) ==
    /\ Serving(s)
    /\ LET rq == NewReq(s, "create_token", 0, TRUE) IN
        IF RequirePermission(sessRole[s], PermManageTokens) # ""
        THEN /\ reply' = Answer(rq, 30, FALSE)
             /\ ctl' = [ctl EXCEPT ![s] = Answered(s)]
        ELSE /\ \A r \in Roles : tokCount[r] < MaxTokRows
             /\ \A t \in CtlSids : ctl[t].pc # "t_insert"
             /\ UNCHANGED reply
             /\ ctl' = [ctl EXCEPT ![s] = [Start(s, "t_insert")
                                             EXCEPT !.role = ParseRole(roleName),
                                                    !.rq = rq]]
    /\ OnlyCtlReply

\* handleCreateToken: GenerateToken and CreateToken, the INSERT; the token
\* is sent to the requester.  fault: one of the two fails (code 31).
AdmTokenInsert(s, fault) ==
    /\ ctl[s].pc = "t_insert"
    /\ IF fault
       THEN /\ reply' = Answer(ctl[s].rq, 31, FALSE)
            /\ UNCHANGED <<tokCount, dbVer>>
       ELSE /\ Stored
            /\ tokCount' = [tokCount EXCEPT ![ctl[s].role] = @ + 1]
            /\ reply' = Answer(ctl[s].rq, 0, TRUE)
    /\ ctl' = [ctl EXCEPT ![s] = Back(ctl[s])]
    /\ UNCHANGED <<notSrv, chanMaps, sessTab, connTab, chanTab, users, bans, timers,
                   lastState>>

\* handleKickUser: GetSnapshot (the role) and the permission.
AdmKickUser(s, uid) ==
    /\ Serving(s)
    /\ LET rq == NewReq(s, "kick", 0, TRUE) IN
        IF RequirePermission(sessRole[s], PermKickUser) # ""
        THEN /\ reply' = Answer(rq, 30, FALSE)
             /\ ctl' = [ctl EXCEPT ![s] = Answered(s)]
        ELSE /\ UNCHANGED reply
             /\ ctl' = [ctl EXCEPT ![s] = [Start(s, "k_target") EXCEPT !.arg = uid,
                                                                     !.rq = rq]]
    /\ OnlyCtlReply

\* handleBanUser: GetSnapshot (the role) and the permission.
AdmBanUser(s, uid, duration) ==
    /\ Serving(s)
    /\ LET rq == NewReq(s, "ban", 0, TRUE) IN
        IF RequirePermission(sessRole[s], PermBanUser) # ""
        THEN /\ duration = 0
             /\ reply' = Answer(rq, 30, FALSE)
             /\ ctl' = [ctl EXCEPT ![s] = Answered(s)]
        ELSE /\ Cardinality(bans) + Cardinality({t \in CtlSids : ctl[t].pc = "b_insert"})
                   < MaxBans
             /\ UNCHANGED reply
             /\ ctl' = [ctl EXCEPT ![s] = [Start(s, "b_insert") EXCEPT !.arg = uid,
                                                                     !.c = duration,
                                                                     !.rq = rq]]
    /\ OnlyCtlReply

\* handleBanUser: CreateBan, the INSERT; expires_at is NULL for duration 0.
\* fault: the statement fails (code 31).
AdmBanInsert(s, fault) ==
    /\ ctl[s].pc = "b_insert"
    /\ IF fault
       THEN /\ reply' = Answer(ctl[s].rq, 31, FALSE)
            /\ ctl' = [ctl EXCEPT ![s] = Back(ctl[s])]
            /\ UNCHANGED <<bans, dbVer>>
       ELSE /\ Stored
            /\ bans' = bans \cup {[uid |-> ctl[s].arg,
                                   exp |-> IF ctl[s].c = 0 THEN 0 ELSE now + ctl[s].c]}
            /\ reply' = Answer(ctl[s].rq, 0, TRUE)
            /\ ctl' = [ctl EXCEPT ![s].pc = "k_target", ![s].c = 0,
                                  ![s].rq = Answer(ctl[s].rq, 0, TRUE)]
    /\ UNCHANGED <<notSrv, chanMaps, sessTab, connTab, chanTab, users, tokCount, timers,
                   lastState>>

\* handleKickUser and handleBanUser: sessions.GetByUserIDSnapshot, which
\* returns a session t of the user, or none: a kick answers code 32, a ban
\* is done.
AdmKickTarget(s, t) ==
    /\ ctl[s].pc = "k_target"
    /\ LET targets == GetByUserID(sessLive, sessUser, ctl[s].arg) IN
        IF targets = {}
        THEN /\ t = 0
             /\ reply' = IF ctl[s].rq.op = "kick" THEN Answer(ctl[s].rq, 32, FALSE)
                         ELSE reply
             /\ ctl' = [ctl EXCEPT ![s] = Back(ctl[s])]
        ELSE /\ t \in targets
             /\ UNCHANGED reply
             /\ ctl' = [ctl EXCEPT ![s].pc = "k_conn", ![s].x = t]
    /\ OnlyCtlReply

\* handleKickUser and handleBanUser: the lookup of the target's conn in
\* connMap, under the read lock; without a conn the handler is done.
AdmKickConn(s) ==
    /\ ctl[s].pc = "k_conn"
    /\ IF ctl[s].x \in connMap
       THEN /\ ctl' = [ctl EXCEPT ![s].pc = "k_close"]
            /\ UNCHANGED reply
       ELSE /\ ctl' = [ctl EXCEPT ![s] = Back(ctl[s])]
            /\ reply' = ctl[s].rq
    /\ OnlyCtlReply

\* handleKickUser and handleBanUser: code 99 is written to the target's
\* conn and the conn is closed.
AdmKickClose(s) ==
    /\ ctl[s].pc = "k_close"
    /\ closedConns' = IF ctl[s].x # 0 THEN closedConns \cup {ctl[s].x} ELSE closedConns
    /\ reply' = Answer(ctl[s].rq, 0, ctl[s].rq.changed \/ closedConns' # closedConns)
    /\ ctl' = [ctl EXCEPT ![s] = Back(ctl[s])]
    /\ UNCHANGED <<notSrv, chanMaps, sessTab, connMap, chanTab, admTab, timers, lastState,
                   dbVer>>

\* handleSetUserRole: GetSnapshot (the role and user id of the requester)
\* and the checks.
AdmSetUserRole(s, target, roleName) ==
    /\ Serving(s)
    /\ LET newRole == ParseRole(roleName)
           rq == NewReq(s, "set_role", newRole, TRUE)
           check == SetUserRoleCheck(sessRole[s], sessUser[s], target, newRole) IN
        IF check # 0
        THEN /\ reply' = Answer(rq, check, FALSE)
             /\ ctl' = [ctl EXCEPT ![s] = Answered(s)]
        ELSE /\ UNCHANGED reply
             /\ ctl' = [ctl EXCEPT ![s] = [Start(s, "r_update") EXCEPT !.arg = target,
                                                                     !.role = newRole,
                                                                     !.rq = rq]]
    /\ OnlyCtlReply

\* handleSetUserRole: UpdateUserRole, the UPDATE of the users row.
\* fault: the statement fails (code 31).
AdmRoleUpdate(s, fault) ==
    /\ ctl[s].pc = "r_update"
    /\ IF fault
       THEN /\ reply' = Answer(ctl[s].rq, 31, FALSE)
            /\ ctl' = [ctl EXCEPT ![s] = Back(ctl[s])]
            /\ UNCHANGED <<users, dbVer>>
       ELSE /\ Stored
            /\ users' = UpdateUserRole(users, ctl[s].arg, ctl[s].role)
            /\ reply' = Answer(ctl[s].rq, 0, users' # users)
            /\ ctl' = [ctl EXCEPT ![s].pc = "r_target",
                                  ![s].rq = Answer(ctl[s].rq, 0, users' # users)]
    /\ UNCHANGED <<notSrv, chanMaps, sessTab, connTab, chanTab, bans, tokCount, timers,
                   lastState>>

\* handleSetUserRole: sessions.GetByUserIDSnapshot, which returns a session
\* t of the target, or none; then the broadcast is next.
AdmRoleTarget(s, t) ==
    /\ ctl[s].pc = "r_target"
    /\ LET targets == GetByUserID(sessLive, sessUser, ctl[s].arg) IN
        IF targets = {}
        THEN /\ t = 0
             /\ ctl' = [ctl EXCEPT ![s] = ToBroadcast(ctl[s])]
        ELSE /\ t \in targets
             /\ ctl' = [ctl EXCEPT ![s].pc = "r_role", ![s].x = t]
    /\ OnlyCtl

\* handleSetUserRole: sessions.UpdateRole of the session found, which
\* changes a session that exists; the response and the broadcast are next.
AdmRoleSession(s) ==
    /\ ctl[s].pc = "r_role"
    /\ sessRole' = IF ctl[s].x \in sessLive THEN [sessRole EXCEPT ![ctl[s].x] = ctl[s].role]
                   ELSE sessRole
    /\ reply' = Answer(ctl[s].rq, 0, ctl[s].rq.changed \/ sessRole' # sessRole)
    /\ ctl' = [ctl EXCEPT ![s] = ToBroadcast(ctl[s])]
    /\ UNCHANGED <<notSrv, chanMaps, sessLive, sessMuted, sessDeaf, sessChannel, sessUser,
                   connTab, chanTab, admTab, timers, lastState, dbVer>>

\* handleExportData: the YAML of the channels or of the users is read and
\* sent; nothing is written.
AdmExportData(s, type) ==
    /\ Serving(s)
    /\ LET code == IF RequirePermission(sessRole[s], PermCreateChannel) # "" THEN 30
                   ELSE IF type \notin {"channels", "users"} THEN 31
                   ELSE 0 IN
        reply' = Answer(NewReq(s, "export", 0, TRUE), code, FALSE)
    /\ ctl' = [ctl EXCEPT ![s] = Answered(s)]
    /\ OnlyCtlReply

\* handleImportChannels: GetSnapshot (the role), the permission and the
\* parse of the YAML.  parsed: the YAML parses (the failure is answered
\* with success = false, no error code).  fresh: the number of listed
\* channels that are no rows yet.  Both are read only by a permitted import.
AdmImportChannels(s, parsed, fresh) ==
    /\ Serving(s)
    /\ fresh > 0 => chanSeq + Inserting + fresh <= MaxChan
    /\ LET rq == NewReq(s, "import", 0, TRUE)
           code == IF RequirePermission(sessRole[s], PermCreateChannel) # "" THEN 30
                   ELSE 0 IN
        /\ (code # 0 \/ ~parsed) => fresh = 0
        /\ code # 0 => parsed
        /\ reply' = IF code # 0 \/ ~parsed THEN Answer(rq, code, FALSE) ELSE reply
        /\ ctl' = [ctl EXCEPT ![s] = IF code # 0 \/ ~parsed THEN Answered(s)
                                     ELSE [Start(s, "i_chan") EXCEPT !.arg = fresh,
                                                                     !.rq = rq]]
    /\ OnlyCtlReply

\* ImportChannelsFromYAML, per listed channel: the lookup of the row by
\* its name; after the last channel the response and the broadcast.
AdmImportLookup(s) ==
    /\ ctl[s].pc = "i_chan"
    /\ ctl' = [ctl EXCEPT ![s] = IF ctl[s].arg = 0 THEN ToBroadcast(ctl[s])
                                 ELSE [ctl[s] EXCEPT !.pc = "i_insert"]]
    /\ reply' = IF ctl[s].arg = 0 THEN ctl[s].rq ELSE reply
    /\ OnlyCtlReply

\* ImportChannelsFromYAML, per listed channel that has no row: the INSERT
\* of a permanent channel with the max_users of its YAML entry.  fault: it
\* fails, which is logged.
AdmImportInsert(s, maxUsers, fault) ==
    /\ ctl[s].pc = "i_insert"
    /\ fault => maxUsers = 0
    /\ IF fault
       THEN UNCHANGED <<chanTab, dbVer>>
       ELSE /\ Stored
            /\ chanRows' = [chanRows EXCEPT ![chanSeq + 1] = "perm"]
            /\ chanMax' = [chanMax EXCEPT ![chanSeq + 1] = maxUsers]
            /\ chanSeq' = chanSeq + 1
    /\ ctl' = [ctl EXCEPT ![s].pc = "i_chan", ![s].arg = @ - 1,
                          ![s].rq = Answer(@, 0, @.changed \/ ~fault)]
    /\ UNCHANGED <<notSrv, chanMaps, sessTab, connTab, admTab, timers, lastState, reply>>

\* --- the steps by which handlers go on, for the specifications

\* sendServerState and broadcastServerState; faults: whether ListChannels
\* and the writes can fail.
BroadcastSteps(faults) ==
    \/ \E s \in CtlSids, fail \in faults : CtlList(s, fail)
    \/ \E s \in CtlSids : CtlChanMembers(s)
    \/ \E s \in CtlSids, x \in SessIds : CtlChanSnapshot(s, x)
    \/ \E s \in CtlSids, t \in CtlSids, err \in faults : CtlWrite(s, t, err)

JoinSteps(faults) ==
    \/ \E s \in CtlSids : CtlJoinCount(s)
    \/ \E s \in CtlSids : CtlJoinDo(s)
    \/ \E s \in CtlSids : CtlJoinSet(s)
    \/ \E s \in CtlSids, err \in faults : CtlSend(s, err)

DeleteSteps(faults) ==
    \/ \E s \in CtlSids, fault \in faults : CtlDeleteChannel(s, fault)
    \/ \E s \in CtlSids : CtlDeleteMembers(s)
    \/ \E s \in CtlSids, x \in SessIds : CtlDeleteLeave(s, x)
    \/ \E s \in CtlSids : CtlDeleteSet(s)

\* The deferred cleanup of a connection that ends, and the broadcast that
\* finds connMap empty, which takes that the last connection has gone.
EndSteps ==
    \/ \E s \in CtlSids : CtlRemoveConn(s)
    \/ \E s \in CtlSids : CtlRemove(s)
    \/ \E s \in CtlSids, fail \in BOOLEAN : CtlCleanupGet(s, fail)
    \/ \E s \in CtlSids : CtlWriteNone(s)

TimerSteps ==
    \/ \E s \in CtlSids : CtlCleanupCount(s)
    \/ \E k \in DOMAIN timers : CleanupWake(k)
    \/ \E k \in DOMAIN timers, fault \in BOOLEAN : CleanupDelete(k, fault)

KickSteps ==
    \/ \E s \in CtlSids, t \in {0} \cup SessIds : AdmKickTarget(s, t)
    \/ \E s \in CtlSids : AdmKickConn(s)
    \/ \E s \in CtlSids : AdmKickClose(s)
    \/ \E s \in CtlSids : CtlClosed(s)

\* A running server: the sessions of live are connected, each in the
\* channel chanOf gives it (0 = none), and their clients will send left
\* requests; the clients of watched have been shown the state as it is.
Running(live, chanOf, left, watched) ==
    /\ sessLive = live
    /\ connMap = live
    /\ members = [c \in ChanIds |-> {s \in live : chanOf[s] = c}]
    /\ sessionToChannel = [s \in SessIds |-> IF s \in live THEN chanOf[s] ELSE 0]
    /\ sessChannel = [s \in SessIds |-> IF s \in live THEN chanOf[s] ELSE 0]
    /\ cmMu = 0
    /\ cmTask = [t \in Tasks |-> IdleTask]
    /\ sessUDP = [s \in SessIds |-> NilAddr]
    /\ sessMuted = [s \in SessIds |-> FALSE]
    /\ sessDeaf = [s \in SessIds |-> FALSE]
    /\ ctl = [s \in CtlSids |-> IF s \in live THEN IdleConn(left) ELSE OffConn]
    /\ timers = <<>>
    /\ lastState = [s \in watched |-> buildChannelInfos(chanRows, members, sessLive)]
    /\ FixedAdm

\* The tables of a server on which nobody is being authenticated.
NoLogin ==
    /\ authImpl = "username" /\ allowNoToken = FALSE /\ tokRole = RoleUser
    /\ autoTok = {}
    /\ bans = {}
    /\ auth = [c \in AuthConns |-> NewConn]

\* Every user has a row with some role, the session of the same number has
\* adopted it.
UsersWithRoles(rs) ==
    /\ users = [n \in Usernames |->
                  [id |-> IF n = "alice" THEN 1 ELSE 2,
                   role |-> rs[IF n = "alice" THEN 1 ELSE 2], pt |-> NoHash]]
    /\ userSeq = Cardinality(Usernames)
    /\ sessRole = [s \in SessIds |-> IF s \in UserIds THEN rs[s] ELSE RoleUser]

\* A running server with the Lobby and a temp channel for one user; both
\* clients are connected and in no channel.
InitJoin ==
    /\ chanRows = [c \in ChanIds |-> IF c = 1 THEN "perm" ELSE IF c = 2 THEN "temp" ELSE "none"]
    /\ chanSeq = 2
    /\ chanMax = [c \in ChanIds |-> IF c = 2 THEN 1 ELSE 0]
    /\ Running(CtlSids, [s \in SessIds |-> 0], MaxReq, CtlSids)
    /\ FixedAuth

\* Joins and leaves of the temp channel, mute and deafen, and the cleanup
\* goroutines.
NextCtl ==
    \/ \E s \in CtlSids : CtlJoinGet(s, 2)
    \/ \E s \in CtlSids : CtlLeave(s)
    \/ \E s \in CtlSids : CtlUserState(s, TRUE, FALSE)
    \/ \E s \in CtlSids : CtlLeaveSet(s)
    \/ \E s \in CtlSids, fail \in BOOLEAN : CtlCleanupGet(s, fail)
    \/ JoinSteps(BOOLEAN)
    \/ TimerSteps
    \/ BroadcastSteps(BOOLEAN)

\* A running server with the Lobby and a second permanent channel; session
\* 1 is an admin in the Lobby, session 2 a user in the second channel.
InitDel ==
    /\ chanRows = [c \in ChanIds |-> IF c <= 2 THEN "perm" ELSE "none"]
    /\ chanSeq = 2
    /\ chanMax = [c \in ChanIds |-> 0]
    /\ Running(CtlSids, [s \in SessIds |-> IF s = 2 THEN 2 ELSE 1], MaxReq, {})
    /\ UsersWithRoles([u \in UserIds |-> IF u = 1 THEN RoleAdmin ELSE RoleUser])
    /\ sessUser = [s \in SessIds |-> IF s \in UserIds THEN s ELSE 0]
    /\ NoLogin

\* Deletions of the second channel beside joins and leaves.
NextDel ==
    \/ \E s \in CtlSids : AdmDeleteChannel(s, 2)
    \/ \E s \in CtlSids, c \in ChanIds : CtlJoinGet(s, c)
    \/ \E s \in CtlSids : CtlLeave(s)
    \/ \E s \in CtlSids : CtlLeaveSet(s)
    \/ \E s \in CtlSids, fail \in BOOLEAN : CtlCleanupGet(s, fail)
    \/ DeleteSteps({FALSE})
    \/ JoinSteps({FALSE})
    \/ BroadcastSteps({FALSE})

\* Connections that come, join the Lobby and go, on a server that has just
\* been started.
NextEnd ==
    \/ \E s \in CtlSids : CtlCreate(s, 1)
    \/ \E s \in CtlSids : CtlSetConn(s)
    \/ \E s \in CtlSids, err \in BOOLEAN : CtlRespond(s, err)
    \/ \E s \in CtlSids : CtlJoinGet(s, 1)
    \/ \E s \in CtlSids : CtlDisconnect(s)
    \/ EndSteps
    \/ JoinSteps(BOOLEAN)
    \/ BroadcastSteps(BOOLEAN)

\* A running server: every user has a row with some role and one session
\* that adopted it and has joined the Lobby; each client will send one
\* request.
InitAdm ==
    /\ \E rs \in [UserIds -> Roles] : UsersWithRoles(rs)
    /\ sessUser = [s \in SessIds |-> IF s \in UserIds THEN s ELSE 0]
    /\ chanRows = [c \in ChanIds |-> IF c = 1 THEN "perm" ELSE "none"]
    /\ chanSeq = 1
    /\ chanMax = [c \in ChanIds |-> 0]
    /\ Running(UserIds, [s \in SessIds |-> 1], MaxAdmReq, {})
    /\ NoLogin

NextAdm ==
    \/ \E s \in CtlSids, reqName \in ChannelNames, parent \in {0} \cup ChanIds,
          isTemp \in BOOLEAN :
            AdmCreateChannel(s, reqName, parent, isTemp)
    \/ \E s \in CtlSids, subOK \in BOOLEAN : AdmCreateParent(s, subOK)
    \/ \E s \in CtlSids, maxUsers \in 0..MaxMaxUsers, fault \in BOOLEAN :
            AdmCreateInsert(s, maxUsers, fault)
    \/ \E s \in CtlSids, c \in ChanIds : AdmDeleteChannel(s, c)
    \/ \E s \in CtlSids, roleName \in RoleNames : AdmCreateToken(s, roleName)
    \/ \E s \in CtlSids, fault \in BOOLEAN : AdmTokenInsert(s, fault)
    \/ \E s \in CtlSids, uid \in UserIds : AdmKickUser(s, uid)
    \/ \E s \in CtlSids, uid \in UserIds, duration \in 0..MaxBanTime :
            AdmBanUser(s, uid, duration)
    \/ \E s \in CtlSids, fault \in BOOLEAN : AdmBanInsert(s, fault)
    \/ \E s \in CtlSids, target \in UserIds, roleName \in RoleNames :
            AdmSetUserRole(s, target, roleName)
    \/ \E s \in CtlSids, fault \in BOOLEAN : AdmRoleUpdate(s, fault)
    \/ \E s \in CtlSids, t \in {0} \cup SessIds : AdmRoleTarget(s, t)
    \/ \E s \in CtlSids : AdmRoleSession(s)
    \/ \E s \in CtlSids, type \in {"channels", "users", "tokens"} : AdmExportData(s, type)
    \/ \E s \in CtlSids, parsed \in BOOLEAN, fresh \in 0..MaxImport :
            AdmImportChannels(s, parsed, fresh)
    \/ \E s \in CtlSids : AdmImportLookup(s)
    \/ \E s \in CtlSids, maxUsers \in 0..MaxMaxUsers, fault \in BOOLEAN :
            AdmImportInsert(s, maxUsers, fault)
    \/ KickSteps
    \/ EndSteps
    \/ DeleteSteps(BOOLEAN)
    \/ BroadcastSteps({FALSE})

\* A running server where alice, an admin, is logged in from two clients
\* (nothing in the handshake prevents it) or alice and bob from one each;
\* everybody has joined the Lobby and will send one request.
InitKick ==
    /\ UsersWithRoles([u \in UserIds |-> RoleAdmin])
    /\ sessUser \in {[s \in SessIds |-> IF s \in CtlSids THEN 1 ELSE 0],
                      [s \in SessIds |-> IF s \in CtlSids THEN s ELSE 0]}
    /\ chanRows = [c \in ChanIds |-> IF c = 1 THEN "perm" ELSE "none"]
    /\ chanSeq = 1
    /\ chanMax = [c \in ChanIds |-> 0]
    /\ Running(CtlSids, [s \in SessIds |-> 1], MaxAdmReq, CtlSids)
    /\ NoLogin

NextKick ==
    \/ \E s \in CtlSids, uid \in UserIds : AdmKickUser(s, uid)
    \/ KickSteps
    \/ EndSteps
    \/ BroadcastSteps({FALSE})

\* A running server of either handshake: bob, an admin, is user 1, is
\* logged in as session 2 and will send one request; alice is user 2 or
\* has no row yet (her first login will make her user 2), and is not
\* connected; clients are about to connect.
InitBan ==
    /\ authImpl \in {"username", "personal"}
    /\ allowNoToken \in BOOLEAN
    /\ tokRole = RoleUser
    /\ \E a \in {0, 2} :
        /\ users = [n \in Usernames |->
                      IF n = "alice" THEN [NoUser EXCEPT !.id = a]
                      ELSE [id |-> 1, role |-> RoleAdmin, pt |-> NoHash]]
        /\ userSeq = IF a = 0 THEN 1 ELSE 2
    /\ autoTok = {}
    /\ bans = {}
    /\ sessUser = [s \in SessIds |-> IF s = 2 THEN 1 ELSE 0]
    /\ sessRole = [s \in SessIds |-> IF s = 2 THEN RoleAdmin ELSE RoleUser]
    /\ auth = [c \in LoginConns |-> NewConn]
    /\ tokBackend = "sql" /\ tokMax = MaxUses /\ tokExp = 0
    /\ tokUse = 0 /\ now = 0 /\ dbVer = 0 /\ dbWriter = 0
    /\ val = [v \in Validators |-> IdleVal]
    /\ chanRows = [c \in ChanIds |-> IF c = 1 THEN "perm" ELSE "none"]
    /\ chanSeq = 1
    /\ chanMax = [c \in ChanIds |-> 0]
    /\ Running({2}, [s \in SessIds |-> 0], MaxAdmReq, {})

NextBan ==
    \/ AuthSteps(LoginConns, LoginRequests, {FALSE})
    \/ \E c \in LoginConns : AuthRemoveConn(c)
    \/ \E c \in LoginConns : AuthRemove(c)
    \/ \E c \in LoginConns : AuthClose(c)
    \/ \E s \in CtlSids, duration \in 0..MaxBanTime : AdmBanUser(s, 2, duration)
    \/ \E s \in CtlSids : AdmBanInsert(s, FALSE)
    \/ \E s \in CtlSids, t \in {0} \cup SessIds : AdmKickTarget(s, t)
    \/ \E s \in CtlSids : AdmKickConn(s)
    \/ \E s \in CtlSids : AdmKickClose(s)

\* ------------------------------------------------------------------ chat

\* The length limit of a chat text.
maxChatLen == 2000

\* handleChatMessage's test on the sanitized text: TRUE = broadcast.
ChatTextOK(text) == ~(ByteLen(text) = 0 \/ ByteLen(text) > maxChatLen)

ChatIdle ==
    [pc |-> "idle", from |-> 0, ch |-> 0, runes |-> 0, bytes |-> 0,
     snap |-> {}, todo |-> {}, sent |-> {}, failed |-> {}]

InitChat == chat = ChatIdle

\* handleChatMessage up to the broadcast: GetSnapshot, ChannelOf, the text
\* trimmed, sanitized and measured.  A sender without a channel and a text
\* that fails the test end the handler.
ChatChannelOf(s, t) ==
    /\ UNCHANGED notChat
    /\ chat.pc \in {"idle", "done"}
    /\ s \in sessLive
    /\ LET chID == ChannelOf(sessionToChannel, s)
           text == sanitizeText(TrimSpace(t))
           got == [ChatIdle EXCEPT !.from = s, !.ch = chID,
                       !.runes = RuneCount(text), !.bytes = ByteLen(text)] IN
       chat' = IF chID = 0 THEN [ChatIdle EXCEPT !.pc = "done", !.from = s]
               ELSE IF ~ChatTextOK(text) THEN [got EXCEPT !.pc = "done"]
               ELSE [got EXCEPT !.pc = "members"]

\* broadcastToChannel(chID, event, 0): the Members snapshot; no session has
\* id 0, so nobody is excluded.
ChatMembers ==
    /\ UNCHANGED notChat
    /\ chat.pc = "members"
    /\ LET snap == Members(members, chat.ch) IN
       chat' = [chat EXCEPT !.pc = IF snap = {} THEN "done" ELSE "write",
                            !.snap = snap, !.todo = snap]

\* One turn of the loop of broadcastToChannel, held under the handler's read
\* lock: a member without a connection is skipped, WriteControlMessage to
\* the others; err: the write failed.
ChatWrite(m, err) ==
    /\ UNCHANGED notChat
    /\ chat.pc = "write"
    /\ m \in chat.todo
    /\ (m \notin connMap => ~err)
    /\ LET rest == AfterWrite(chat.todo, m, err) IN
       chat' = [chat EXCEPT !.pc = IF rest = {} THEN "done" ELSE "write",
                            !.todo = rest,
                            !.sent = IF m \in connMap /\ ~err THEN @ \cup {m} ELSE @,
                            !.failed = IF m \in connMap /\ err THEN @ \cup {m} ELSE @]

\* The sessions of lobby are in the Lobby, the others in no channel; every
\* live session has its connection registered and its voice address pinned.
InitRoom(lobby) ==
    /\ members = [c \in ChanIds |-> IF c = 1 THEN lobby ELSE {}]
    /\ sessionToChannel = [s \in SessIds |-> IF s \in lobby THEN 1 ELSE 0]
    /\ cmMu = 0
    /\ cmTask = [t \in Tasks |-> IdleTask]
    /\ sessLive = SessIds
    /\ sessUDP = [s \in SessIds |-> ClientAddr(s)]
    /\ sessMuted = [s \in SessIds |-> FALSE]
    /\ sessDeaf = [s \in SessIds |-> FALSE]
    /\ ctl = [s \in CtlSids |-> OffConn]
    /\ connMap = SessIds
    /\ sessChannel = [s \in SessIds |-> 0]
    /\ chanRows = [c \in ChanIds |-> IF c = 1 THEN "perm" ELSE "none"]
    /\ chanSeq = 1
    /\ chanMax = [c \in ChanIds |-> 0]
    /\ timers = <<>>
    /\ lastState = [s \in CtlSids |-> NoState]

\* Chat messages of any text beside joins and leaves.
NextChat ==
    \/ \E s \in SessIds, t \in Texts : ChatChannelOf(s, t)
    \/ ChatMembers
    \/ \E m \in SessIds, err \in BOOLEAN : ChatWrite(m, err)
    \/ \E s \in SessIds, c \in ChanIds : Join(s, c)
    \/ \E s \in SessIds : Leave(s)

\* One short chat text and the voice packets of the clients' own sockets:
\* the two fan-out loops with failing writes.
NextFan ==
    \/ \E s \in SessIds : ChatChannelOf(s, <<[r |-> "a", n |-> 700]>>)
    \/ ChatMembers
    \/ \E m \in SessIds, err \in BOOLEAN : ChatWrite(m, err)
    \/ \E sid \in SessIds, ch \in ChanIds : VoiceRecv(sid, ch, ClientAddr(sid))
    \/ VoiceChannelOf
    \/ VoiceMembers
    \/ \E m \in SessIds : VoiceMemberSnapshot(m)
    \/ \E err \in BOOLEAN : VoiceWrite(err)

\* ------------------------------------------------------ run and shutdown

\* Run after its listeners are started: main waits for the signal, the
\* accept loop is in Accept, the voice loop at its head, the metrics ticker
\* in its select; no connection yet, the store open.
\*   main:  "serving", "cancelled" (s.cancel() done), "lnClosed"
\*          (controlConn closed), "udpClosed" (voiceConn closed), "returned"
\*          (Run has returned to main)
\*   proc:  the process: "up", "ended" (main returned after Run),
\*          "panicked" (a goroutine panicked and nothing recovered)
\*   conn:  where the task of handleControlConn is:
\*          "off"; "hand" (reading the AuthRequest); the store calls of the
\*          handshake "h_tx", "h_validate", "h_commit", "h_user",
\*          "h_create", "h_token", "h_ban"; "h_txerr" (st.Tx failed, code 3
\*          is to be written), "h_nil" (ValidateToken is to be called on
\*          the nil transaction); "h_sess" (sessions.Create, setConn, the
\*          defer);
\*          "h_list" and "h_write" (the AuthResponse); "head" (loop head),
\*          "read" (in ReadControlMessage), "handle" (in handleMessage),
\*          "q_call" (a handler's store call); "d_leave" (the deferred
\*          cleanup); "c_get", "c_count" (cleanupTempChannel); "b_list",
\*          "b_write" (broadcastServerState); "x_rollback" (the deferred
\*          tx.Rollback of a handshake that came with a token, which
\*          runs when the task returns); "exited"
\*   anon:  the AuthRequest of the connection had no token
\*   ret:   where the task goes after the broadcast: back to "head" from a
\*          handler, to "exited" from the deferred cleanup
\*   left:  the requests the client still sends
\*   asleep, deleting: the cleanup goroutines in their Sleep, and those
\*          that go on to DeleteChannel
\*   storeClosed: the deferred Close of Run has been called
\*   lateOp: a datastore call was issued after Close
InitRun ==
    run = [main |-> "serving", proc |-> "up", accept |-> "accept", voice |-> "head", metrics |-> "select",
           conn |-> [c \in RunConns |-> "off"],
           anon |-> [c \in RunConns |-> FALSE],
           ret |-> [c \in RunConns |-> "head"],
           left |-> [c \in RunConns |-> MaxRunReq],
           asleep |-> 0, deleting |-> 0,
           storeClosed |-> FALSE, lateOp |-> FALSE]

\* The process runs, and its goroutines with it.
Up == run.proc = "up"

\* <-s.ctx.Done() is ready.
Cancelled == run.main # "serving"

\* s.controlConn.Close() has run: Accept fails.
ListenerClosed == run.main \in {"lnClosed", "udpClosed", "returned"}

\* s.voiceConn.Close() has run: ReadFromUDP fails.
VoiceConnClosed == run.main \in {"udpClosed", "returned"}

\* A datastore call by a task.  Close of the provider does nothing, so a
\* call after it is carried out like one before it; lateOp records that it
\* came after the close.
StoreOp(r) == [r EXCEPT !.lateOp = @ \/ r.storeClosed]

\* Run: the signal arrives, Shutdown is entered and calls s.cancel().
RunSignal ==
    /\ UNCHANGED notRun
    /\ Up
    /\ run.main = "serving"
    /\ run' = [run EXCEPT !.main = "cancelled"]

\* Shutdown after the cancel: controlConn.Close(), then voiceConn.Close().
Shutdown ==
    /\ UNCHANGED notRun
    /\ Up
    /\ run.main \in {"cancelled", "lnClosed"}
    /\ run' = [run EXCEPT !.main = IF @ = "cancelled" THEN "lnClosed" ELSE "udpClosed"]

\* Run returns after Shutdown: the deferred st.NonTx().Close().
RunReturn ==
    /\ UNCHANGED notRun
    /\ Up
    /\ run.main = "udpClosed"
    /\ run' = [run EXCEPT !.main = "returned", !.storeClosed = TRUE]

\* main after srv.Run() has returned nil: main returns and the process
\* ends, with every goroutine that is still running.
ProcessExit ==
    /\ UNCHANGED notRun
    /\ Up
    /\ run.main = "returned"
    /\ run' = [run EXCEPT !.proc = "ended"]

\* The accept loop: Accept returns a connection and handleControlConn is
\* started for it.
AcceptConn(c) ==
    /\ UNCHANGED notRun
    /\ Up
    /\ run.accept = "accept" /\ ~ListenerClosed
    /\ run.conn[c] = "off"
    /\ run' = [run EXCEPT !.conn[c] = "hand"]

\* The accept loop: Accept fails on the closed listener and the context is
\* done.
AcceptError ==
    /\ UNCHANGED notRun
    /\ Up
    /\ run.accept = "accept" /\ ListenerClosed
    /\ run' = [run EXCEPT !.accept = "exited"]

\* handleControlConn: the read of the first message under its 10 s
\* deadline, and the checks that need no store.  msg = "none": the read
\* failed, or the message is no AuthRequest, or the username is invalid, or
\* a token is required and missing: the task returns, before the cleanup is
\* deferred.  Otherwise an AuthRequest with a token or without.
ConnAuthRead(c, msg) ==
    /\ UNCHANGED notRun
    /\ Up
    /\ run.conn[c] = "hand"
    /\ run' = [run EXCEPT !.anon[c] = (msg = "anon"),
                          !.conn[c] = CASE msg = "none" -> "exited"
                                        [] msg = "token" -> "h_tx"
                                        [] msg = "anon" -> "h_user"]

\* The task returns: with a token in the AuthRequest the transaction was
\* begun and its deferred Rollback is called now, on the store.
Returned(anon) == IF anon THEN "exited" ELSE "x_rollback"

\* Where the handshake goes after the store call at pc with outcome out:
\* st.Tx (after an error the code does not return), ValidateToken on the
\* transaction, Commit (its error is only reported), GetUserByUsername
\* ("new": no row), CreateUser, CreateToken for a user who came without a
\* token (its error is dropped), IsUserBanned ("fail": an error, or
\* banned), and the deferred Rollback, after which the task is gone.
AfterAuthCall(pc, anon, out) ==
    CASE pc = "h_tx" -> IF out = "ok" THEN "h_validate" ELSE "h_txerr"
      [] pc = "h_validate" -> IF out = "ok" THEN "h_commit" ELSE Returned(anon)
      [] pc = "h_commit" -> "h_user"
      [] pc = "h_user" -> IF out = "ok" THEN "h_ban"
                          ELSE IF out = "new" THEN "h_create" ELSE Returned(anon)
      [] pc = "h_create" -> IF out # "ok" THEN Returned(anon)
                            ELSE IF anon THEN "h_token" ELSE "h_ban"
      [] pc = "h_token" -> "h_ban"
      [] pc = "h_ban" -> IF out = "ok" THEN "h_sess" ELSE Returned(anon)
      [] pc = "x_rollback" -> "exited"

\* The next store call of the handshake code.  A failed call ends the
\* task before the cleanup is deferred, except st.Tx and Commit, after
\* which the code goes on.
ConnAuthStore(c, out) ==
    /\ UNCHANGED notRun
    /\ Up
    /\ run.conn[c] \in {"h_tx", "h_validate", "h_commit", "h_user", "h_create", "h_token",
                        "h_ban", "x_rollback"}
    /\ out = "new" => run.conn[c] = "h_user"
    /\ run.conn[c] \in {"h_token", "x_rollback"} => out = "ok"
    /\ run' = [StoreOp(run) EXCEPT
                 !.conn[c] = AfterAuthCall(run.conn[c], run.anon[c], out)]

\* st.Tx has failed: code 3 is written to the connection, and the code
\* goes on with the nil transaction.
ConnTxError(c) ==
    /\ UNCHANGED notRun
    /\ Up
    /\ run.conn[c] = "h_txerr"
    /\ run' = [run EXCEPT !.conn[c] = "h_nil"]

\* tx.ValidateToken on the nil transaction: a nil dereference, and one more
\* in the deferred tx.Rollback; no goroutine recovers, the process dies.
ConnTxPanic(c) ==
    /\ UNCHANGED notRun
    /\ Up
    /\ run.conn[c] = "h_nil"
    /\ run' = [run EXCEPT !.proc = "panicked"]

\* sessions.Create and setConn; the disconnect cleanup is deferred.
ConnSession(c) ==
    /\ UNCHANGED notRun
    /\ Up
    /\ run.conn[c] = "h_sess"
    /\ run' = [run EXCEPT !.conn[c] = "h_list"]

\* ListChannels for the AuthResponse.
ConnAuthList(c) ==
    /\ UNCHANGED notRun
    /\ Up
    /\ run.conn[c] = "h_list"
    /\ run' = [StoreOp(run) EXCEPT !.conn[c] = "h_write"]

\* The write of the AuthResponse.  err: it fails and the task returns,
\* into the deferred cleanup.
ConnAuthWrite(c, err) ==
    /\ UNCHANGED notRun
    /\ Up
    /\ run.conn[c] = "h_write"
    /\ run' = [run EXCEPT !.conn[c] = IF err THEN "d_leave" ELSE "head"]

\* The head of the message loop: the select on s.ctx.Done().
ConnHead(c) ==
    /\ UNCHANGED notRun
    /\ Up
    /\ run.conn[c] = "head"
    /\ run' = [run EXCEPT !.conn[c] = IF Cancelled THEN "d_leave" ELSE "read"]

\* ReadControlMessage returns: a message of the client, or EOF / an error
\* when the client closed.  Shutdown does not close client connections and
\* the read has no deadline.
ConnRead(c, eof) ==
    /\ UNCHANGED notRun
    /\ Up
    /\ run.conn[c] = "read"
    /\ eof \/ run.left[c] > 0
    /\ run' = [run EXCEPT !.conn[c] = IF eof THEN "d_leave" ELSE "handle",
                          !.left[c] = IF eof THEN @ ELSE @ - 1]

\* handleMessage, by what the handler of the message does:
\*   "ping":  no store call and no broadcast (Ping, chat, a refused request)
\*   "state": broadcastServerState with no store call before it
\*            (UserStateUpdate, a leave by a session in no channel)
\*   "call":  a store call, then the broadcast (join, create, delete, ...)
\*   "leave": handleLeaveChannel of a session in a channel: Leave,
\*            SetChannel, the ChannelLeftEvent, then cleanupTempChannel
ConnHandle(c, kind) ==
    /\ UNCHANGED notRun
    /\ Up
    /\ run.conn[c] = "handle"
    /\ run' = [run EXCEPT !.ret[c] = "head",
                          !.conn[c] = CASE kind = "ping" -> "head"
                                        [] kind = "state" -> "b_list"
                                        [] kind = "call" -> "q_call"
                                        [] kind = "leave" -> "c_get"]

\* The store call of a handler.  fail: it returns an error, the handler
\* answers with it and returns without a broadcast.
ConnStoreCall(c, fail) ==
    /\ UNCHANGED notRun
    /\ Up
    /\ run.conn[c] = "q_call"
    /\ run' = [StoreOp(run) EXCEPT !.conn[c] = IF fail THEN "head" ELSE "b_list"]

\* The deferred cleanup: channels.Leave, removeConn, sessions.Remove, and
\* for a session that was in a channel (inCh) the ChannelLeftEvent, after
\* which cleanupTempChannel is next.
ConnDefer(c, inCh) ==
    /\ UNCHANGED notRun
    /\ Up
    /\ run.conn[c] = "d_leave"
    /\ run' = [run EXCEPT !.ret[c] = "exited",
                          !.conn[c] = IF inCh THEN "c_get" ELSE "b_list"]

\* cleanupTempChannel: GetChannel.  temp: the read succeeds and the row is
\* a temp channel's; otherwise the function returns.
ConnCleanupGet(c, temp) ==
    /\ UNCHANGED notRun
    /\ Up
    /\ run.conn[c] = "c_get"
    /\ run' = [StoreOp(run) EXCEPT !.conn[c] = IF temp THEN "c_count" ELSE "b_list"]

\* cleanupTempChannel: MembersCount; for an empty channel the go statement
\* starts one more cleanup goroutine, which the task does not wait for.
ConnCleanupCount(c, empty) ==
    /\ UNCHANGED notRun
    /\ Up
    /\ run.conn[c] = "c_count"
    /\ run' = [run EXCEPT !.asleep = IF empty THEN @ + 1 ELSE @,
                          !.conn[c] = "b_list"]

\* broadcastServerState: ListChannels.
ConnBroadcastList(c) ==
    /\ UNCHANGED notRun
    /\ Up
    /\ run.conn[c] = "b_list"
    /\ run' = [StoreOp(run) EXCEPT !.conn[c] = "b_write"]

\* broadcastServerState: the writes to the connections; then the handler
\* returns to the loop head, or the task returns.
ConnBroadcastWrite(c) ==
    /\ UNCHANGED notRun
    /\ Up
    /\ run.conn[c] = "b_write"
    /\ run' = [run EXCEPT !.conn[c] = IF run.ret[c] = "head" THEN "head"
                                      ELSE Returned(run.anon[c])]

\* A cleanup goroutine after its sleep: the MembersCount recheck; it
\* returns unless the channel is still empty.
TimerWake(empty) ==
    /\ UNCHANGED notRun
    /\ Up
    /\ run.asleep > 0
    /\ run' = [run EXCEPT !.asleep = @ - 1,
                          !.deleting = IF empty THEN @ + 1 ELSE @]

\* A cleanup goroutine's DeleteChannel, after which it returns.
TimerDelete ==
    /\ UNCHANGED notRun
    /\ Up
    /\ run.deleting > 0
    /\ run' = [StoreOp(run) EXCEPT !.deleting = @ - 1]

\* voiceLoop: the select at the loop head, then ReadFromUDP; pkt: a packet
\* arrived (forwarded, back to the head); otherwise the read failed on the
\* closed socket and the context is done.
RunVoiceLoop(pkt) ==
    /\ UNCHANGED notRun
    /\ Up
    /\ \/ /\ run.voice = "head" /\ ~pkt
          /\ run' = [run EXCEPT !.voice = IF Cancelled THEN "exited" ELSE "read"]
       \/ /\ run.voice = "read" /\ pkt /\ ~VoiceConnClosed
          /\ run' = [run EXCEPT !.voice = "head"]
       \/ /\ run.voice = "read" /\ ~pkt /\ VoiceConnClosed
          /\ run' = [run EXCEPT !.voice = "exited"]

\* StartPeriodicLog: the select takes the done channel.
MetricsDone ==
    /\ UNCHANGED notRun
    /\ Up
    /\ run.metrics = "select" /\ Cancelled
    /\ run' = [run EXCEPT !.metrics = "exited"]

\* The steps of the task of connection c.  Its client sends what it likes.
ConnSteps(c) ==
    \/ \E msg \in {"none", "token", "anon"} : ConnAuthRead(c, msg)
    \/ \E out \in {"ok", "new", "fail"} : ConnAuthStore(c, out)
    \/ ConnTxError(c)
    \/ ConnTxPanic(c)
    \/ ConnSession(c)
    \/ ConnAuthList(c)
    \/ \E err \in BOOLEAN : ConnAuthWrite(c, err)
    \/ ConnHead(c)
    \/ \E kind \in {"ping", "state", "call", "leave"} : ConnHandle(c, kind)
    \/ \E fail \in BOOLEAN : ConnStoreCall(c, fail)
    \/ \E inCh \in BOOLEAN : ConnDefer(c, inCh)
    \/ \E temp \in BOOLEAN : ConnCleanupGet(c, temp)
    \/ \E empty \in BOOLEAN : ConnCleanupCount(c, empty)
    \/ ConnBroadcastList(c)
    \/ ConnBroadcastWrite(c)

NextRun ==
    \/ RunSignal
    \/ Shutdown
    \/ RunReturn
    \/ ProcessExit
    \/ \E c \in RunConns : AcceptConn(c)
    \/ AcceptError
    \/ \E c \in RunConns : ConnSteps(c)
    \/ \E c \in RunConns, eof \in BOOLEAN : ConnRead(c, eof)
    \/ \E empty \in BOOLEAN : TimerWake(empty)
    \/ TimerDelete
    \/ \E pkt \in BOOLEAN : RunVoiceLoop(pkt)
    \/ MetricsDone

\* Every step of the server's own tasks is taken once it stays possible: the
\* scheduler runs every goroutine, closed sockets fail their reads, the
\* handshake read has a deadline, the cleanup sleep ends, and main returns
\* once Run has.  Messages, closes and packets of clients, and the signal,
\* are not owed.
RunFairness ==
    /\ WF_vars(Shutdown) /\ WF_vars(RunReturn) /\ WF_vars(ProcessExit)
    /\ WF_vars(AcceptError)
    /\ WF_vars(RunVoiceLoop(FALSE)) /\ WF_vars(MetricsDone)
    /\ WF_vars(\E empty \in BOOLEAN : TimerWake(empty)) /\ WF_vars(TimerDelete)
    /\ \A c \in RunConns : WF_vars(ConnSteps(c))

\* --------------------------------------------------------------- VAD

\* NewVAD(200, 15, 3) in the engine: threshold, holdFrames, preBufferFrames.
vadThreshold == 200
holdFrames == 15
preBufferFrames == 3

\* A PCM frame is represented by its RMS (computeRMS): at the engine's
\* threshold, just above it, and loud.
RmsLevels == {200, 201, 1000}
Thresholds == {200, 1000}

\* NewVAD.  pre holds the frames of the pre-buffer ring in chronological
\* order, as PreBufferedFrames returns them.  out is what the last Process
\* returned; heard and quiet record the input: a frame above the threshold
\* was processed, and how many frames not above it came since (counted up to
\* holdFrames + 2).
NewVAD ==
    [threshold |-> vadThreshold, holdTime |-> holdFrames, holdCount |-> 0,
     pre |-> <<>>, active |-> FALSE,
     out |-> FALSE, heard |-> FALSE, quiet |-> 0]

InitVad == vad = NewVAD

\* The ring after one more frame: the last preBufSize frames.
PreBuffered(pre, rms) ==
    IF preBufferFrames = 0 THEN pre
    ELSE IF Len(pre) < preBufferFrames THEN Append(pre, rms)
    ELSE Append(Tail(pre), rms)

\* The count of frames not above the threshold, stopped at holdFrames + 2.
Counted(quiet) == IF quiet < holdFrames + 2 THEN quiet + 1 ELSE quiet

\* A hold that never runs out.
HoldingAlways(holdCount) == TRUE

\* Process: the hold is still running.
Holding(holdCount) == holdCount > 0

\* VAD.Process: the frame goes to the pre-buffer; above the threshold the
\* hold is reloaded and the frame is active; otherwise a running hold is
\* counted down and the frame is active; otherwise it is inactive.
VadProcess(rms) ==
    /\ UNCHANGED notVad
    /\ LET stored == [vad EXCEPT !.pre = PreBuffered(@, rms)] IN
       vad' = IF rms > vad.threshold
              THEN [stored EXCEPT !.holdCount = vad.holdTime, !.active = TRUE,
                                  !.out = TRUE, !.heard = TRUE, !.quiet = 0]
              ELSE IF Holding(vad.holdCount)
              THEN [stored EXCEPT !.holdCount = @ - 1, !.out = TRUE,
                                  !.quiet = Counted(@)]
              ELSE [stored EXCEPT !.active = FALSE, !.out = FALSE,
                                  !.quiet = Counted(@)]

\* VAD.SetThreshold
SetThreshold(threshold) ==
    /\ UNCHANGED notVad
    /\ vad' = [vad EXCEPT !.threshold = threshold]

NextVad ==
    \/ \E rms \in RmsLevels : VadProcess(rms)
    \/ \E threshold \in Thresholds : SetThreshold(threshold)

\* -------------------------------------------------------- jitter buffer

\* The constants of the client's jitter buffer.  Sequence numbers are
\* uint32; the numbers here stay far below 2^32, where nextSeq++ and
\* nextSeq+i do not wrap.
jitterBufSize == 5
maxJitterDelay == 10

\* Sequence numbers the packets of the model carry: a low range, and one
\* that is further ahead of every number of the low range than Pop looks.
JbFar == MaxJbSeq + maxJitterDelay + 1
JbSeqs == (0..MaxJbSeq) \cup {JbFar}

\* NewJitterBuffer: no frames, not ready.  The payload bytes are left out:
\* a stored frame is a non-nil copy of what was pushed.
NewJitterBuffer == [frames |-> {}, nextSeq |-> 0, ready |-> FALSE]

\* seqDiff: the distance between two sequence numbers.
seqDiff(a, b) == IF a >= b THEN a - b ELSE b - a

\* A cleanup that deletes nothing.
cleanupKept(frames, nextSeq) == frames

\* cleanup: the frames further than jitterBufSize*3 from nextSeq go.
cleanup(frames, nextSeq) ==
    {q \in frames : ~(seqDiff(q, nextSeq) > jitterBufSize * 3)}

\* Push with nextSeq taken from every pushed packet.
JbPushedAlwaysFirst(b, seqNum) ==
    [frames |-> b.frames \cup {seqNum}, nextSeq |-> seqNum, ready |-> TRUE]

\* Push: the first push sets nextSeq; the frame is stored (a duplicate
\* overwrites); more than jitterBufSize*3 frames trigger cleanup.
JbPushed(b, seqNum) ==
    LET next == IF ~b.ready THEN seqNum ELSE b.nextSeq
        stored == b.frames \cup {seqNum} IN
    [frames |-> IF Cardinality(stored) > jitterBufSize * 3 THEN cleanup(stored, next)
                ELSE stored,
     nextSeq |-> next,
     ready |-> TRUE]

\* What Pop returns: ok, the sequence number, and lost = nil payload.
NotReady == [ok |-> FALSE, seq |-> 0, lost |-> FALSE]

\* Pop, the result: the frame at nextSeq; else the lost signal when one of
\* the next maxJitterDelay numbers has a frame; else not ready.
JbPopResult(b) ==
    IF ~b.ready THEN NotReady
    ELSE IF b.nextSeq \in b.frames THEN [ok |-> TRUE, seq |-> b.nextSeq, lost |-> FALSE]
    ELSE IF \E i \in 1..maxJitterDelay : b.nextSeq + i \in b.frames
         THEN [ok |-> TRUE, seq |-> b.nextSeq, lost |-> TRUE]
    ELSE NotReady

\* Pop, the buffer afterwards: a returned frame is deleted, and nextSeq
\* advances on every successful Pop.
JbPopped(b) ==
    LET r == JbPopResult(b) IN
    IF r.ok THEN [b EXCEPT !.frames = b.frames \ {r.seq},
                           !.nextSeq = b.nextSeq + 1]
    ELSE b

\* A buffer nobody has pushed to, nothing returned yet, no plan.
NoPlan == [todo |-> <<>>, k |-> 0, n |-> 0, done |-> TRUE]
InitJb ==
    /\ jb = NewJitterBuffer
    /\ jbLast = NotReady
    /\ jbPrev = -1
    /\ jbReturned = {}
    /\ jbPushed = {}
    /\ jbInOrder = TRUE
    /\ jbPlan = NoPlan
    /\ jbOut = <<>>

\* Engine.processIncomingVoice: a decrypted packet is pushed.
Push(seqNum) ==
    /\ UNCHANGED notJb
    /\ jb' = JbPushed(jb, seqNum)
    /\ jbPushed' = jbPushed \cup {seqNum}
    /\ UNCHANGED <<jbLast, jbPrev, jbReturned, jbInOrder, jbPlan, jbOut>>

\* One Pop of the drain loop.  jbInOrder records that every successful Pop
\* so far returned the number after the one before it, and none twice.
Pop ==
    /\ UNCHANGED notJb
    /\ LET r == JbPopResult(jb) IN
        /\ jb' = JbPopped(jb)
        /\ jbLast' = r
        /\ jbPrev' = IF r.ok THEN r.seq ELSE jbPrev
        /\ jbReturned' = IF r.ok THEN jbReturned \cup {r.seq} ELSE jbReturned
        /\ jbInOrder' = IF r.ok
                        THEN /\ jbInOrder
                             /\ jbPrev = -1 \/ r.seq = jbPrev + 1
                             /\ r.seq \notin jbReturned
                        ELSE jbInOrder
    /\ UNCHANGED <<jbPushed, jbPlan, jbOut>>

\* JitterBuffer.Reset, the buffer afterwards: the frames are gone and ready
\* is cleared, so that the next Push sets nextSeq again; nextSeq itself is
\* left as it is.
JbReset(b) == [b EXCEPT !.frames = {}, !.ready = FALSE]

\* Reset, which no caller in the repository uses: a user of the package
\* may call it at any time.  The record of what the Pops returned starts
\* again with it: a sequence of pushes and pops is what lies between two
\* Resets.
Reset ==
    /\ UNCHANGED notJb
    /\ jb' = JbReset(jb)
    /\ jbPrev' = -1
    /\ jbReturned' = {}
    /\ UNCHANGED <<jbLast, jbPushed, jbInOrder, jbPlan, jbOut>>

\* The receive path of the engine: pushes and pops.
NextJbDrain ==
    \/ \E seqNum \in JbSeqs : Push(seqNum)
    \/ Pop

\* Every operation of the buffer.
NextJb ==
    \/ NextJbDrain
    \/ Reset

\* The orders in which the numbers k..k+n can be pushed once each.
Range(k, n) == k..(k + n)
Orders(k, n) ==
    {f \in [1..(n + 1) -> Range(k, n)] : \A i, j \in 1..(n + 1) : i # j => f[i] # f[j]}
Ascending(k, n) == [i \in 1..(n + 1) |-> k + i - 1]

\* A fresh buffer and the numbers to push: any order of a short range, or
\* a longer range in ascending order.
InitJbPlan ==
    /\ jb = NewJitterBuffer
    /\ jbLast = NotReady
    /\ jbPrev = -1
    /\ jbReturned = {}
    /\ jbPushed = {}
    /\ jbInOrder = TRUE
    /\ jbOut = <<>>
    /\ \E k \in 0..MaxJbSeq :
        \/ \E n \in 0..(MaxPermLen - 1) : \E f \in Orders(k, n) :
              jbPlan = [todo |-> f, k |-> k, n |-> n, done |-> FALSE]
        \/ \E n \in 0..(MaxRunLen - 1) :
              jbPlan = [todo |-> Ascending(k, n), k |-> k, n |-> n, done |-> FALSE]

\* The next number of the plan is pushed.
PlanPush ==
    /\ UNCHANGED notJb
    /\ jbPlan.todo # <<>>
    /\ jb' = JbPushed(jb, Head(jbPlan.todo))
    /\ jbPushed' = jbPushed \cup {Head(jbPlan.todo)}
    /\ jbPlan' = [jbPlan EXCEPT !.todo = Tail(jbPlan.todo)]
    /\ UNCHANGED <<jbLast, jbPrev, jbReturned, jbInOrder, jbOut>>

\* After the pushes: Pop until it reports not ready; what it returned is
\* appended to jbOut.
PlanPop ==
    /\ UNCHANGED notJb
    /\ jbPlan.todo = <<>> /\ ~jbPlan.done
    /\ LET r == JbPopResult(jb) IN
        /\ jb' = JbPopped(jb)
        /\ jbLast' = r
        /\ jbPrev' = IF r.ok THEN r.seq ELSE jbPrev
        /\ jbReturned' = IF r.ok THEN jbReturned \cup {r.seq} ELSE jbReturned
        /\ jbOut' = IF r.ok THEN Append(jbOut, [seq |-> r.seq, lost |-> r.lost]) ELSE jbOut
        /\ jbPlan' = [jbPlan EXCEPT !.done = ~r.ok]
    /\ UNCHANGED <<jbPushed, jbInOrder>>

NextJbPlan ==
    \/ PlanPush
    \/ PlanPop

\* A speaker whose packets fill the buffer: number 15 arrives first, then
\* the late 0..14, then 16..31, while the drain loop pops at any time.
FillPlan ==
    <<jitterBufSize * 3>> \o Ascending(0, jitterBufSize * 3 - 1)
    \o Ascending(jitterBufSize * 3 + 1, jitterBufSize * 3)

InitJbFill ==
    /\ jb = NewJitterBuffer
    /\ jbLast = NotReady
    /\ jbPrev = -1
    /\ jbReturned = {}
    /\ jbPushed = {}
    /\ jbInOrder = TRUE
    /\ jbOut = <<>>
    /\ jbPlan = [todo |-> FillPlan, k |-> 0, n |-> Len(FillPlan) - 1, done |-> FALSE]

NextJbFill ==
    \/ PlanPush
    \/ Pop

NextCM ==
    \/ \E t \in Tasks, s \in SessIds, c \in ChanIds : CMJoinBegin(t, s, c)
    \/ \E t \in Tasks : CMJoinEnd(t)
    \/ \E t \in Tasks, s \in SessIds : CMLeaveBegin(t, s)
    \/ \E t \in Tasks : CMLeaveEnd(t)

InitCMOnly == InitCM /\ FixedTok /\ InitSess /\ InitVoiceLoop /\ InitNonce /\ InitWire /\ InitCtl /\ FixedAuth /\ FixedAdm /\ InitJb /\ InitChat /\ InitRun /\ InitVad

SpecCM == InitCMOnly /\ [][NextCM]_vars

\* C1: whenever the channel manager's lock is free (after any interleaving
\* of Join and Leave calls), a session is in Members(c) exactly when
\* ChannelOf(session) = c, for every session and every channel.
C1_MapsAgree ==
    cmMu = 0 =>
        \A s \in SessIds, c \in ChanIds :
            (s \in Members(members, c)) <=> (ChannelOf(sessionToChannel, s) = c)

\* Two sessions sit in different channels and a third is in none.
C1_Witness ==
    /\ cmMu = 0
    /\ \E s1, s2, s3 \in SessIds :
        /\ ChannelOf(sessionToChannel, s1) = 1 /\ s1 \in Members(members, 1)
        /\ ChannelOf(sessionToChannel, s2) = 2 /\ s2 \in Members(members, 2)
        /\ ChannelOf(sessionToChannel, s3) = 0
        /\ \A c \in ChanIds : s3 \notin Members(members, c)

\* C2: in every state, also between the two halves of a Join that moves a
\* session, a session id is in the member set of at most one channel.
C2_AtMostOneChannel ==
    \A s \in SessIds : Cardinality({c \in ChanIds : s \in members[c]}) <= 1

\* A Join is half done: the session was in a channel and is moving to another.
C2_Witness ==
    \E t \in Tasks :
        /\ cmTask[t].pc = "join_add"
        /\ cmTask[t].prev # 0
        /\ cmTask[t].prev # cmTask[t].c

\* ------------------------------------------ specification: token store
InitTokOnly == InitTok /\ InitCM /\ InitSess /\ InitVoiceLoop /\ InitNonce /\ InitWire /\ InitCtl /\ FixedAuth /\ FixedAdm /\ InitJb /\ InitChat /\ InitRun /\ InitVad

SpecTok == InitTokOnly /\ [][NextTok]_vars

Done(r) == {v \in Validators : val[v].pc = "done" /\ val[v].res = r}
Started == {v \in Validators : val[v].pc # "idle"}
Min(a, b) == IF a < b THEN a ELSE b

\* C3: once N validations of one known, unexpired token with max_uses = K > 0
\* have all returned, exactly min(N, K) of them succeeded, every other one
\* returned the exhausted error, and use_count is min(N, K).
C3_ExactlyMinSucceed ==
    ( /\ tokMax > 0
      /\ tokExp = 0
      /\ \A v \in Validators : val[v].pc \in {"idle", "done"}
      /\ \A v \in Started : val[v].known )
    => LET n == Cardinality(Started) IN
       /\ Cardinality(Done("ok")) = Min(n, tokMax)
       /\ Started \ Done("ok") = Done("exhausted")
       /\ tokUse = Min(n, tokMax)

\* C4: for a token with max_uses > 0, use_count never exceeds max_uses.
C4_UseCountBounded == tokMax > 0 => tokUse <= tokMax

\* The token is used up and a further validation was refused as exhausted.
C4_Witness ==
    /\ tokMax > 0
    /\ tokUse = tokMax
    /\ Done("exhausted") # {}
    /\ Cardinality(Done("ok")) = tokMax

\* ------------------------------------------- specification: voice plane
InitVoiceOnly == InitCM /\ FixedTok /\ InitSess /\ InitVoiceLoop /\ InitNonce /\ InitWire /\ InitCtl /\ FixedAuth /\ FixedAdm /\ InitJb /\ InitChat /\ InitRun /\ InitVad

SpecVoice == InitVoiceOnly /\ [][NextVoice]_vars

FanOut == {"members", "fan", "write"}

\* C5: while a packet of a session is past the source check (and the session
\* was not removed meanwhile), the session's pinned address is the packet's
\* source in ip and port: a packet from any other address is never forwarded.
C5_PinnedSourceOnly ==
    (vl.pc \in ({"chk"} \cup FanOut) /\ ~vl.stale) => sessUDP[vl.sid] = vl.src

\* A packet was dropped for its source while a session is pinned.
C5_Witness ==
    /\ vl.pc = "recv" /\ vl.drop = "source"
    /\ \E s \in sessLive : sessUDP[s] # NilAddr

\* C6: a packet leaves the channel check towards the fan-out only when, at
\* that moment, the membership map records for its sender a channel that is
\* the one its header claims; a sender in no channel never passes.
C6_ChannelClaimChecked ==
    [][ (vl.pc = "chk" /\ vl'.pc # "chk" /\
            ( ChannelOf(sessionToChannel, vl.sid) # vl.ch
              \/ ChannelOf(sessionToChannel, vl.sid) = 0 ))
        => (vl'.pc = "recv" /\ vl'.drop = "channel") ]_vars

\* A packet was dropped for its channel claim.
C6_Witness == vl.pc = "recv" /\ vl.drop = "channel"

\* C7 as claimed: at the moment of a write the recipient is a current member
\* of the sender's current channel, other than the sender, pinned and not
\* deafened.
C7_RecipientCurrentMember ==
    vl.pc = "write" =>
        /\ vl.cur # vl.sid
        /\ ChannelOf(sessionToChannel, vl.sid) # 0
        /\ vl.cur \in Members(members, ChannelOf(sessionToChannel, vl.sid))
        /\ sessUDP[vl.cur] # NilAddr
        /\ ~sessDeaf[vl.cur]

\* C7 as amended: the fan-out list is the member list of the checked channel
\* as it was when Members was read, without the sender; the list only
\* shrinks; and a write goes only to a session of that list that had a
\* session, a pinned address and no deafened flag when its snapshot was read.
C7_RecipientFromSnapshots ==
    [][ /\ (vl.pc = "members" /\ vl'.pc = "fan")
            => vl'.todo = Members(members, vl.actual) \ {vl.sid}
        /\ (vl.pc \in {"fan", "write"} /\ vl'.pc \in {"fan", "write"})
            => vl'.todo \subseteq vl.todo
        /\ (vl.pc = "fan" /\ vl'.pc = "write")
            => /\ vl'.cur \in vl.todo
               /\ vl'.cur # vl.sid
               /\ vl'.cur \in sessLive
               /\ sessUDP[vl'.cur] # NilAddr
               /\ ~sessDeaf[vl'.cur] ]_vars

\* The loop is about to write a packet to a recipient.
C7_Witness ==
    /\ vl.pc = "write"
    /\ vl.cur \in vl.memSnap
    /\ vl.cur # vl.sid

\* C8: the sender snapshot the loop works on carries the muted flag the
\* session manager held when the packet was looked up, and no packet gets
\* past the mute check with that flag set.
C8_MutedNotForwarded ==
    [][ /\ (vl.pc = "recv" /\ vl'.pc # "recv") => vl'.snapMuted = sessMuted[vl'.sid]
        /\ vl'.pc \in ({"chk"} \cup FanOut) => ~vl'.snapMuted ]_vars

\* A packet of a muted session was dropped.
C8_Witness == vl.pc = "recv" /\ vl.drop = "muted"

\* --------------------------------------- specification: control plane
InitJoinOnly == InitJoin /\ FixedTok /\ InitVoiceLoop /\ InitNonce /\ InitWire /\ InitJb /\ InitChat /\ InitRun /\ InitVad

SpecCtl == InitJoinOnly /\ [][NextCtl]_vars

\* No handler is between two of its steps and no cleanup goroutine is pending.
Quiescent ==
    /\ \A s \in CtlSids : ctl[s].pc \in {"idle", "off"}
    /\ \A k \in DOMAIN timers : timers[k].pc = "none"

\* A client is up to date: the last ServerStateEvent it got is the
\* server's channel list and per-channel membership.
UpToDate(s) == lastState[s] = buildChannelInfos(chanRows, members, sessLive)

\* C9: once no control operation and no scheduled temp-channel cleanup is in
\* progress, the last ServerStateEvent of every connected client that got one
\* equals the server's current channel list and per-channel membership.
C9_LastStateCurrent ==
    Quiescent =>
        \A s \in connMap : lastState[s].got => UpToDate(s)

\* --------------------------------------- specification: voice nonces
InitNonceOnly == InitCM /\ FixedTok /\ InitSess /\ InitVoiceLoop /\ InitNonce /\ InitWire /\ InitCtl /\ FixedAuth /\ FixedAdm /\ InitJb /\ InitChat /\ InitRun /\ InitVad

SpecNonce == InitNonceOnly /\ [][NextNonce]_vars

\* C10: under the one voice key of a server run, no nonce built from
\* (session_id, seq_num) is used for more than one encrypted packet, also
\* when a session is created after earlier sessions were removed.
C10_NonceUnique == resealed = {}

\* --------------------------------------- specification: authentication
InitAuthOnly ==
    InitAuth /\ InitCM /\ InitSess /\ InitVoiceLoop /\ InitNonce /\ InitWire /\ InitCtl /\ FixedAdm /\ InitJb /\ InitChat /\ InitRun /\ InitVad

SpecAuth == InitAuthOnly /\ [][NextAuth]_vars

\* The sessions that handshakes have created and not yet cleaned up.
SessionsOf == {auth[c].sid : c \in AuthConns} \ {0}

\* C11: a handshake that ends in a session for a user row that existed
\* before (so it adopts that row's stored role) supplied a token whose hash
\* is that user's stored personal-token hash; every other handshake creates
\* a new user or is rejected.
C11_BoundOnlyByPersonalToken ==
    \A c \in AuthConns :
        (auth[c].pc = "done" /\ auth[c].sid # 0 /\ ~auth[c].made) => auth[c].matched

\* C12: a handshake in which the server wrote an ErrorResponse (some step
\* failed) wrote only codes 2, 3 or 4, closed the connection, created no
\* session and registered no connection.
C12_FailureCreatesNoSession ==
    \A c \in AuthConns :
        (auth[c].pc = "done" /\ auth[c].kind = "auth" /\ auth[c].codes # <<>>) =>
            /\ \A i \in 1..Len(auth[c].codes) : auth[c].codes[i] \in {2, 3, 4}
            /\ auth[c].closed
            /\ auth[c].sid = 0

\* C13: a connection whose first message is no auth_request gets code 1 and
\* is closed; no session is created and no connection registered for it:
\* every session and every registered conn is that of another connection.
C13_AuthFirst ==
    \A c \in AuthConns :
        (auth[c].pc = "done" /\ auth[c].kind = "other") =>
            /\ auth[c].codes = <<1>>
            /\ auth[c].closed
            /\ auth[c].sid = 0
            /\ sessLive \subseteq SessionsOf
            /\ connMap \subseteq SessionsOf

\* A first message that was no auth_request has been answered.
C13_Witness ==
    \E c \in AuthConns :
        auth[c].pc = "done" /\ auth[c].kind = "other" /\ auth[c].codes = <<1>>

\* C16: a handshake whose user, when the ban check ran, had a ban row that
\* is permanent or not yet expired is answered with code 4 and creates no
\* session.
C16_BannedCannotAuthenticate ==
    \A c \in AuthConns :
        (auth[c].pc = "done" /\ auth[c].banned) =>
            /\ \E i \in 1..Len(auth[c].codes) : auth[c].codes[i] = 4
            /\ auth[c].sid = 0
            /\ auth[c].sid \notin sessLive
            /\ sessLive = SessionsOf

\* A user with one expired and one unexpired ban row was turned away.
C16_Witness ==
    \E c \in AuthConns :
        /\ auth[c].pc = "done" /\ auth[c].banned
        /\ \E i \in 1..Len(auth[c].codes) : auth[c].codes[i] = 4
        /\ \E b1, b2 \in bans :
            /\ b1.uid = auth[c].user /\ b2.uid = auth[c].user
            /\ b1.exp # 0 /\ b1.exp <= now
            /\ b2.exp = 0 \/ b2.exp > now

\* --------------------------------------- specification: privileged operations
InitAdmOnly == InitAdm /\ FixedTok /\ InitVoiceLoop /\ InitNonce /\ InitWire /\ InitJb /\ InitChat /\ InitRun /\ InitVad

SpecAdm == InitAdmOnly /\ [][NextAdm]_vars

\* The last request was a privileged one from a session whose role lacks
\* the permission the role matrix asks for.
LacksPermission ==
    /\ reply.op \in PrivilegedOps
    /\ RequiredPerm(reply.op) \notin permissionMatrix[reply.role]

\* C14 as stated: a privileged request from a session whose role lacks the
\* required permission is answered with code 30 and changes no in-memory or
\* datastore state.
C14_DeniedWithCode30 ==
    LacksPermission => reply.code = 30 /\ ~reply.changed

\* C14: a privileged request from a session whose role lacks the required
\* permission changes no in-memory or datastore state; it is answered with
\* code 30, except a create-channel request whose sanitized name is empty
\* or longer than 64 bytes in UTF-8, which is answered with code 31 before
\* the permission is looked at.
C14_DeniedChangesNothing ==
    LacksPermission =>
        /\ ~reply.changed
        /\ reply.code = IF /\ reply.op = "create_channel"
                           /\ (reply.bytes = 0 \/ reply.bytes > 64)
                        THEN 31 ELSE 30

\* After an admin had created a channel, a user's request for a permanent
\* channel named with 30 three-byte characters (90 bytes) was answered with
\* code 31.
C14_Witness ==
    /\ reply.op = "create_channel" /\ reply.role = RoleUser
    /\ reply.runes = 30 /\ reply.bytes = 90 /\ reply.code = 31
    /\ chanSeq > 1

\* C15: a SetUserRole request whose new role is higher than the requesting
\* session's role is rejected and changes neither a stored role nor the role
\* of any live session (nor anything else).
C15_NoEscalation ==
    (reply.op = "set_role" /\ reply.arg > reply.role) =>
        reply.code \in {30, 31} /\ ~reply.changed

\* A moderator asked for the admin role for the other user, who has a
\* session, and was refused.
C15_Witness ==
    /\ reply.op = "set_role" /\ reply.role = RoleModerator /\ reply.arg = RoleAdmin
    /\ reply.code # 0
    /\ \E t \in sessLive : t # reply.sid /\ sessRole[t] < RoleAdmin

\* --------------------------------------- specification: jitter buffer
InitJbOnly ==
    InitJb /\ InitCM /\ FixedTok /\ InitSess /\ InitVoiceLoop /\ InitNonce /\ InitWire /\ InitCtl
    /\ FixedAuth /\ FixedAdm /\ InitChat /\ InitRun /\ InitVad

SpecJb == InitJbOnly /\ [][NextJb]_vars

\* The receive loop drains the buffer after every push: Pop keeps being
\* called.
SpecJbFair == InitJbOnly /\ [][NextJbDrain]_vars /\ WF_vars(Pop)

InitJbPlanOnly ==
    InitJbPlan /\ InitCM /\ FixedTok /\ InitSess /\ InitVoiceLoop /\ InitNonce /\ InitWire /\ InitCtl
    /\ FixedAuth /\ FixedAdm /\ InitChat /\ InitRun /\ InitVad

SpecJbPlan == InitJbPlanOnly /\ [][NextJbPlan]_vars

\* C17: after the numbers k..k+n were pushed once each into a fresh buffer,
\* in any order, popping until Pop reports not ready has returned the
\* frames k, k+1, ..., k+n in this order.
C17_PermutationInOrder ==
    (jbPlan.done /\ jbPlan.todo = <<>> /\ jbPushed # {}) =>
        jbOut = [i \in 1..(jbPlan.n + 1) |-> [seq |-> jbPlan.k + i - 1, lost |-> FALSE]]

\* The number s is missing: at or above nextSeq, never pushed, and a later
\* number has a frame in the buffer.
Missing(s) ==
    /\ jb.ready /\ s >= jb.nextSeq /\ s \notin jbPushed
    /\ \E q \in jb.frames : q > s

\* The same, with the later frame within Pop's lookahead from nextSeq.
MissingWithin(s) ==
    /\ jb.ready /\ s >= jb.nextSeq /\ s \notin jbPushed
    /\ \E q \in jb.frames : q > s /\ q <= jb.nextSeq + maxJitterDelay

LostReported(s) == jbLast = [ok |-> TRUE, seq |-> s, lost |-> TRUE]

\* C18 as stated: a number at or above nextSeq that is never pushed while
\* a later number has been pushed is eventually returned by Pop as lost.
C18_MissingReported ==
    \A s \in 0..JbFar : Missing(s) ~> (LostReported(s) \/ s \in jbPushed)

\* C18, where it does hold: a number at or above nextSeq that is never
\* pushed, while a later number that is at most maxJitterDelay above nextSeq
\* has a frame in the buffer, is eventually returned by Pop as lost.
C18_MissingWithinLookaheadReported ==
    \A s \in 0..JbFar : MissingWithin(s) ~> (LostReported(s) \/ s \in jbPushed)

\* C19: the numbers successive successful Pops return increase by exactly
\* one, and none is returned twice, whatever is pushed, also a number that
\* is pushed again before or after it was returned.  This is about the
\* pushes and pops since the buffer was made or last Reset.
C19_PopsInOrder == jbInOrder

\* Several Pops have succeeded, the last one while a number returned
\* earlier was in the buffer again.
C19_Witness ==
    /\ jbLast.ok /\ Cardinality(jbReturned) >= 2
    /\ \E q \in jb.frames : q \in jbReturned /\ q < jbLast.seq

\* --------------------------------------- specification: temp-channel cleanup
\* The control plane with its goroutines running: a handler that has begun
\* gets to its next step, and a cleanup goroutine that was started wakes up
\* after its sleep and gets to its DeleteChannel.
SpecCtlFair ==
    /\ SpecCtl
    /\ WF_vars(\E s \in CtlSids : CtlLeaveSet(s))
    /\ WF_vars(\E s \in CtlSids, fail \in BOOLEAN : CtlCleanupGet(s, fail))
    /\ WF_vars(JoinSteps(BOOLEAN))
    /\ WF_vars(TimerSteps)
    /\ WF_vars(BroadcastSteps(BOOLEAN))

\* C20: every temp channel that is empty is eventually deleted from the
\* channels table, unless somebody joins it before the grace period is over.
C20_EmptyTempDeleted ==
    \A c \in ChanIds :
        (chanRows[c] = "temp" /\ MembersCount(members, c) = 0)
            ~> (chanRows[c] # "temp" \/ MembersCount(members, c) > 0)

\* --------------------------------------- specification: concurrent logins
InitLoginOnly ==
    InitLogin /\ InitCM /\ InitSess /\ InitVoiceLoop /\ InitNonce /\ InitWire /\ InitCtl /\ FixedAdm /\ InitJb /\ InitChat /\ InitRun /\ InitVad

SpecLogin == InitLoginOnly /\ [][NextLogin]_vars

\* C30: at any time at most one live session exists for a given user id.
C30_OneSessionPerUser ==
    \A s \in sessLive, t \in sessLive : sessUser[s] = sessUser[t] => s = t

\* --------------------------------------- specification: kick
InitKickOnly == InitKick /\ FixedTok /\ InitVoiceLoop /\ InitNonce /\ InitWire /\ InitJb /\ InitChat /\ InitRun /\ InitVad

SpecKick == InitKickOnly /\ [][NextKick]_vars

\* C22: after a kick of an online user U has been processed and the cleanup
\* of the closed connection has run, the ServerStateEvent that cleanup
\* broadcast to the remaining clients lists U in no channel.
C22_KickedUserNotListed ==
    \A s \in CtlSids :
        (ctl[s].ret = "off" /\ ctl[s].pc \in {"write", "wloop"})
            => \A c \in ChanIds :
                  \A x \in ctl[s].built.users[c] : sessUser[x] # sessUser[s]

\* --------------------------------------- specification: connections that end
InitCtlOnly == InitCM /\ FixedTok /\ InitSess /\ InitVoiceLoop /\ InitNonce /\ InitWire /\ InitCtl /\ FixedAuth /\ FixedAdm /\ InitJb /\ InitChat /\ InitRun /\ InitVad

SpecEnd == InitCtlOnly /\ [][NextEnd]_vars

\* --------------------------------------- specification: channel deletion
InitDelOnly == InitDel /\ FixedTok /\ InitVoiceLoop /\ InitNonce /\ InitWire /\ InitJb /\ InitChat /\ InitRun /\ InitVad

SpecDel == InitDelOnly /\ [][NextDel]_vars

\* --------------------------------------- claims on the control plane's races
\* C21: a rejoin of a temp channel within the 5 minutes after it became
\* empty cancels the deletion scheduled for that emptying: a cleanup
\* goroutine whose channel was rejoined while it was asleep never goes on to
\* delete the channel.
C21_RejoinCancelsDeletion ==
    \A k \in DOMAIN timers : timers[k].pc = "delete" => ~timers[k].rejoined

\* The task of connection s has ended, or is ending and has run the
\* cleanup calls (it is at cleanupTempChannel or in its last broadcast).
CleanedUp(s) ==
    \/ ctl[s].pc = "off"
    \/ ctl[s].ret = "off" /\ ctl[s].pc \notin {"e_conn", "e_sess"}

\* C23: once the task of an authenticated control connection has ended and
\* its cleanup has run, the session is in no channel's member set, has no
\* channel in the channel manager, is not in the session manager and has no
\* entry in the connection table.
C23_EndedSessionGone ==
    \A s \in CtlSids :
        CleanedUp(s)
            => /\ s \notin sessLive
               /\ s \notin connMap
               /\ ChannelOf(sessionToChannel, s) = 0
               /\ \A c \in ChanIds : s \notin Members(members, c)

\* A connection's cleanup has just run while another client's last
\* ServerStateEvent still lists the session in a channel.
C23_Witness ==
    \E s \in CtlSids, t \in connMap, c \in ChanIds :
        /\ ctl[s].ret = "off" /\ ctl[s].pc = "list"
        /\ s \in lastState[t].users[c]

\* C24: a channel with max_users > 0 never has more than max_users members.
C24_MaxUsersRespected ==
    \A c \in ChanIds :
        chanMax[c] > 0 => MembersCount(members, c) <= chanMax[c]

\* C25: when a DeleteChannelRequest has been fully processed (its handler
\* returns), no session is a member of the deleted channel and no live
\* session has it as its channel_id.
C25_DeletedChannelEmpty ==
    [][\A s \in CtlSids :
         (ctl[s].del # 0 /\ ctl'[s].pc = "idle")
            => /\ Members(members', ctl[s].del) = {}
               /\ \A x \in sessLive' \cap CtlSids :
                     ctl'[x].pc = "idle" => sessChannel'[x] # ctl[s].del]_vars

\* No control handler is between two of its steps.
HandlersIdle == \A s \in CtlSids : ctl[s].pc \in {"idle", "off"}

\* C26: once no control handler is mid-execution, every live session's
\* channel_id equals ChannelOf(session) of the channel manager.
C26_ChannelIdAgrees ==
    HandlersIdle =>
        \A s \in sessLive : sessChannel[s] = ChannelOf(sessionToChannel, s)

\* C27: the cleanup goroutine deletes a channel's row only at a moment the
\* channel has no member.
C27_CleanupDeletesEmptyOnly ==
    [][\A k \in DOMAIN timers :
         (timers[k].pc = "delete" /\ chanRows'[timers[k].ch] = "none")
            => MembersCount(members, timers[k].ch) = 0]_vars

\* --------------------------------------- specification: control framing
InitWireOnly ==
    InitWire /\ InitCM /\ FixedTok /\ InitSess /\ InitVoiceLoop /\ InitNonce /\ InitCtl
    /\ FixedAuth /\ FixedAdm /\ InitJb /\ InitChat /\ InitRun /\ InitVad

SpecWire == InitWireOnly /\ [][NextWire]_vars

\* C28: on a control connection every length prefix is immediately
\* followed by the payload of the same frame, also when several tasks write
\* to the connection at a time.
C28_FramesContiguous ==
    \A i \in 1..Len(wire) :
        wire[i].kind = "len"
            => /\ i < Len(wire) => wire[i + 1] = PayloadChunk(wire[i].f)
               /\ i = Len(wire) => \E w \in Writers : wpc[w] = wire[i].f

\* --------------------------------------- claims on the pinned address
\* C29: the UDP address pinned for a session is the address of the client
\* that authenticated the session, whoever else sends datagrams that carry
\* the session's id.
C29_PinnedIsOwner ==
    \A s \in sessLive : sessUDP[s] # NilAddr => sessUDP[s] = ClientAddr(s)

\* --------------------------------------- claims on ValidateToken's effect
\* C33: a ValidateToken call that succeeds increments use_count by exactly
\* one, a call that fails (unknown hash, expired, exhausted, or a store
\* error) leaves it unchanged, and nothing else changes use_count.
C33_UseCountPerSuccess ==
    [][/\ \A v \in Validators :
            (val[v].pc # "done" /\ val'[v].pc = "done")
               => tokUse' = IF val'[v].res = "ok" THEN tokUse + 1 ELSE tokUse
       /\ tokUse' # tokUse
            => \E v \in Validators :
                   val[v].pc # "done" /\ val'[v].pc = "done" /\ val'[v].res = "ok"]_vars

\* One validation has succeeded, one was refused for an unknown hash and
\* one because the token was used up.
C33_Witness ==
    /\ Done("ok") # {} /\ Done("invalid") # {} /\ Done("exhausted") # {}
    /\ tokUse = Cardinality(Done("ok"))

\* --------------------------------------- claims on token uses and logins
\* C32: every increment of the invite token's use_count belongs to exactly
\* one authentication that ended with a session being created; an attempt
\* that is rejected does not consume a use.
C32_UsePerCreatedSession ==
    \A c \in DOMAIN auth :
        /\ (auth[c].pc = "done" /\ auth[c].sid = 0) => ~auth[c].took
        /\ auth[c].took => tokUse > 0

\* --------------------------------------- specification: ban against login
InitBanOnly == InitBan /\ InitVoiceLoop /\ InitNonce /\ InitWire /\ InitJb /\ InitChat /\ InitRun /\ InitVad

SpecBan == InitBanOnly /\ [][NextBan]_vars

\* C31: once a ban of user U has been processed and the cleanup of every
\* connection it closed has run, U has no live session, also when U was
\* authenticating while the ban was processed.
C31_BannedHasNoSession ==
    ( /\ \A s \in CtlSids : ctl[s].pc \in {"idle", "off"}
      /\ closedConns = {}
      /\ \A c \in DOMAIN auth : auth[c].pc # "remove" )
    => \A b \in bans : \A s \in sessLive : sessUser[s] # b.uid

\* --------------------------------------- claims on channel creation
\* C34: a CreateChannelRequest from a session whose role lacks
\* create_channel creates a channel only when it asks for a temp channel
\* under an existing parent that allows sub-channels; every other such
\* request is rejected and creates nothing.
C34_UnprivilegedCreatesTempSubOnly ==
    ( /\ reply.op \in {"create_temp", "create_channel"}
      /\ PermCreateChannel \notin permissionMatrix[reply.role] )
    => IF reply.op = "create_temp" /\ reply.valid /\ reply.subOK
       THEN reply.changed => reply.made = "temp"
       ELSE ~reply.changed /\ reply.code # 0 /\ reply.made = "none"

\* A session of role user has created a temp channel under the Lobby.
C34_Witness ==
    /\ reply.op = "create_temp" /\ reply.role = RoleUser /\ reply.code = 0
    /\ reply.changed /\ reply.arg = 1 /\ reply.made = "temp" /\ chanRows[chanSeq] = "temp"

\* ------------------------------------------------------- claims on chat
InitChatOnly ==
    InitRoom({1, 2}) /\ InitChat /\ FixedTok /\ InitVoiceLoop /\ InitNonce /\ InitWire
    /\ FixedAuth /\ FixedAdm /\ InitJb /\ InitRun /\ InitVad

SpecChat == InitChatOnly /\ [][NextChat]_vars

\* C35: when the handler of a chat message from a session in channel c
\* finishes, and the sanitized text has between 1 and 2000 characters, the
\* message was written to every member of c, the sender included, and to no
\* other session.
C35_ChatReachesChannel ==
    [][( /\ chat.pc # "done" /\ chat'.pc = "done"
         /\ chat'.ch # 0
         /\ chat'.runes >= 1 /\ chat'.runes <= 2000 )
       => /\ chat'.sent \cup chat'.failed = members'[chat'.ch]
          /\ chat'.from \in chat'.sent \cup chat'.failed]_vars

InitFanOnly ==
    InitRoom(SessIds) /\ InitChat /\ FixedTok /\ InitVoiceLoop /\ InitNonce /\ InitWire
    /\ FixedAuth /\ FixedAdm /\ InitJb /\ InitRun /\ InitVad

SpecFan == InitFanOnly /\ [][NextFan]_vars

\* C36: a failed write to one recipient stops neither loop.  In a control
\* broadcast every member of the snapshot that has a connection and whose
\* own write did not fail has been written to when the loop ends, and is
\* written to or still to come while it runs; in the voice fan-out the
\* members that were still to be visited before a write, failed or not, are
\* still to be visited after it.
C36_FailedWriteSkipsOnlyItself ==
    /\ [](chat.pc \in {"write", "done"}
          => (chat.snap \cap connMap) \ chat.failed = chat.sent \cup (chat.todo \cap connMap))
    /\ [][(vl.pc = "write" /\ vl' # vl /\ vl.todo \ {vl.cur} # {})
          => (vl'.pc = "fan" /\ vl'.todo = vl.todo \ {vl.cur})]_vars

\* A broadcast has ended with one failed and one successful write, and a
\* voice fan-out goes on after a failed write.
C36_Witness ==
    /\ chat.pc = "done" /\ chat.failed # {} /\ chat.sent # {}
    /\ vl.pc = "fan" /\ vl.failed # {} /\ vl.todo # {}

\* --------------------------------------------------- claims on shutdown
InitRunOnly ==
    InitRun /\ InitCM /\ FixedTok /\ InitSess /\ InitVoiceLoop /\ InitNonce /\ InitWire
    /\ InitCtl /\ FixedAuth /\ FixedAdm /\ InitJb /\ InitChat /\ InitVad

SpecRun == InitRunOnly /\ [][NextRun]_vars
SpecRunFair == SpecRun /\ RunFairness

\* Every task has returned.  A task that the end of the process cut off
\* stays where it was: it has not exited.
TasksExited ==
    /\ run.accept = "exited" /\ run.voice = "exited" /\ run.metrics = "exited"
    /\ \A c \in RunConns : run.conn[c] \in {"off", "exited"}

\* C37: once the server-wide cancellation is triggered, the accept loop, the
\* UDP receive loop, every per-connection control loop and the metrics
\* ticker eventually exit.
C37_TasksExitAfterCancel == Cancelled ~> TasksExited

\* C38: the store is closed only after every connection handler, its
\* disconnect cleanup included, and every cleanup timer has finished, and no
\* datastore call is issued after the close.
C38_StoreClosedLast ==
    run.storeClosed
    => /\ \A c \in RunConns : run.conn[c] \in {"off", "exited"}
       /\ run.asleep = 0 /\ run.deleting = 0
       /\ ~run.lateOp

\* ------------------------------------------ claims on the buffer's size
InitJbFillOnly ==
    InitJbFill /\ InitCM /\ FixedTok /\ InitSess /\ InitVoiceLoop /\ InitNonce /\ InitWire
    /\ InitCtl /\ FixedAuth /\ FixedAdm /\ InitChat /\ InitRun /\ InitVad

SpecJbFill == InitJbFillOnly /\ [][NextJbFill]_vars

\* C39: the buffer never holds more than 2*15+1 frames, however many were
\* pushed, and a push that brings the size above 15 leaves no frame farther
\* than 15 from nextSeq.
C39_FramesBounded ==
    /\ [](Cardinality(jb.frames) <= 2 * (jitterBufSize * 3) + 1)
    /\ [][( /\ Len(jbPlan'.todo) < Len(jbPlan.todo)
            /\ Cardinality(jb.frames \cup {Head(jbPlan.todo)}) > jitterBufSize * 3 )
          => \A q \in jb'.frames : seqDiff(q, jb'.nextSeq) <= jitterBufSize * 3]_vars

\* The buffer is as full as it gets and a pushed frame was evicted: it is
\* neither held nor was it returned.
C39_Witness ==
    /\ Cardinality(jb.frames) = 2 * (jitterBufSize * 3) + 1
    /\ \E q \in jbPushed : q \notin jb.frames /\ q \notin jbReturned /\ q > jb.nextSeq

\* ---------------------------------------------------- claims on the VAD
InitVadOnly ==
    InitVad /\ InitCM /\ FixedTok /\ InitSess /\ InitVoiceLoop /\ InitNonce /\ InitWire
    /\ InitCtl /\ FixedAuth /\ FixedAdm /\ InitJb /\ InitChat /\ InitRun

SpecVad == InitVadOnly /\ [][NextVad]_vars

\* C40: Process reports active for a frame above the threshold and for the
\* first holdFrames = 15 frames not above it that follow such a frame, and
\* inactive for every other frame: the 16th and later ones, and the frames
\* before any frame was above the threshold.
C40_ActiveThroughHold == vad.out = (vad.heard /\ vad.quiet <= holdFrames)

\* The 16th frame below the threshold after speech was reported inactive.
C40_Witness == vad.heard /\ vad.quiet = holdFrames + 1 /\ ~vad.out

====
